---- MODULE Spec2Model ----
(***************************************************************************)
(* The agent control loop of go-swe-agent: Orchestrator.Run sequencing the *)
(* Planner (bounded exploration, plan extraction) and the Executor (bounded*)
(* per-task loop) over the shared AgentState.                              *)
(*                                                                         *)
(* Go strings that the code inspects (response texts, task descriptions,   *)
(* task outputs) are sequences of one-character strings, so that           *)
(* strings.Contains, Split, TrimSpace, HasPrefix and ToLower are computed  *)
(* as the library computes them.  Strings the code only stores or formats  *)
(* (task ids, error texts) are TLA+ strings.  A nil pointer is the empty   *)
(* sequence and a non-nil pointer a one-element sequence.                  *)
(***************************************************************************)
EXTENDS Integers, Sequences, FiniteSets, TLC

\* ------------------------------------------------------------------------
\* Go values

Nil == <<>>

Some(x) == <<x>>

NL == "\n"

\* ------------------------------------------------------------------------
\* package strings, as used by planner.go

IsSpace(c) == c \in {" ", NL, "\t", "\r"}

UpperChars ==
    <<"A", "B", "C", "D", "E", "F", "G", "H", "I", "J", "K", "L", "M", "N", "O", "P", "Q", "R", "S", "T", "U", "V", "W", "X", "Y", "Z">>

LowerChars ==
    <<"a", "b", "c", "d", "e", "f", "g", "h", "i", "j", "k", "l", "m", "n", "o", "p", "q", "r", "s", "t", "u", "v", "w", "x", "y", "z">>

LowerChar(c) ==
    IF \E k \in 1..Len(UpperChars) : UpperChars[k] = c
    THEN LowerChars[CHOOSE k \in 1..Len(UpperChars) : UpperChars[k] = c]
    ELSE c

ToLower(s) == [k \in 1..Len(s) |-> LowerChar(s[k])]

OccursAt(s, p, k) ==
    /\ k + Len(p) - 1 <= Len(s)
    /\ \A j \in 1..Len(p) : s[k + j - 1] = p[j]

Contains(s, p) == \E k \in 1..(Len(s) - Len(p) + 1) : OccursAt(s, p, k)

\* strings.Index, 1-based; 0 when p does not occur in s
Index(s, p) ==
    IF Contains(s, p)
    THEN CHOOSE k \in 1..(Len(s) - Len(p) + 1) :
            /\ OccursAt(s, p, k)
            /\ \A j \in 1..(k - 1) : ~OccursAt(s, p, j)
    ELSE 0

RECURSIVE Split(_, _)
Split(s, sep) ==
    LET k == Index(s, sep)
    IN  IF k = 0
        THEN <<s>>
        ELSE <<SubSeq(s, 1, k - 1)>> \o Split(SubSeq(s, k + Len(sep), Len(s)), sep)

RECURSIVE TrimLeft(_)
TrimLeft(s) ==
    IF s # <<>> /\ IsSpace(Head(s)) THEN TrimLeft(Tail(s)) ELSE s

RECURSIVE TrimRight(_)
TrimRight(s) ==
    IF s # <<>> /\ IsSpace(s[Len(s)]) THEN TrimRight(SubSeq(s, 1, Len(s) - 1)) ELSE s

TrimSpace(s) == TrimRight(TrimLeft(s))

HasPrefix(s, p) == Len(p) <= Len(s) /\ SubSeq(s, 1, Len(p)) = p

TrimPrefix(s, p) == IF HasPrefix(s, p) THEN SubSeq(s, Len(p) + 1, Len(s)) ELSE s

\* ------------------------------------------------------------------------
\* Plan extraction (Planner.parsePlanFromText)

PlanMarker == <<"P", "L", "A", "N", ":">>

NumberPrefixes ==
    << <<"1", ".">>,
       <<"2", ".">>,
       <<"3", ".">>,
       <<"4", ".">>,
       <<"5", ".">>,
       <<"6", ".">>,
       <<"7", ".">>,
       <<"8", ".">>,
       <<"9", ".">>,
       <<"1", "0", ".">>,
       <<"1", "1", ".">>,
       <<"1", "2", ".">>,
       <<"1", "3", ".">>,
       <<"1", "4", ".">>,
       <<"1", "5", ".">> >>

BulletDash == <<"-", " ">>

BulletStar == <<"*", " ">>

NewTask(taskID, taskDesc) ==
    [ID          |-> "task-" \o ToString(taskID),
     Description |-> taskDesc,
     Status      |-> "pending",
     Output      |-> <<>>,
     Error       |-> "",
     StartedAt   |-> Nil,
     CompletedAt |-> Nil]

\* the inner loop over the numbered prefixes, from prefix k on: the tasks it
\* appends for one trimmed line (it stops at the first prefix that yields one)
RECURSIVE NumberedItem(_, _, _)
NumberedItem(line, taskID, k) ==
    IF k > Len(NumberPrefixes)
    THEN <<>>
    ELSE IF /\ HasPrefix(line, NumberPrefixes[k])
            /\ TrimSpace(TrimPrefix(line, NumberPrefixes[k])) # <<>>
         THEN <<NewTask(taskID, TrimSpace(TrimPrefix(line, NumberPrefixes[k])))>>
         ELSE NumberedItem(line, taskID, k + 1)

\* the bullet branch for one trimmed line
BulletItem(line, taskID) ==
    IF /\ HasPrefix(line, BulletDash) \/ HasPrefix(line, BulletStar)
       /\ TrimSpace(SubSeq(line, 3, Len(line))) # <<>>
    THEN <<NewTask(taskID, TrimSpace(SubSeq(line, 3, Len(line))))>>
    ELSE <<>>

\* one pass of the loop over the lines: the tasks appended for one line
LineTasks(rawLine, taskID) ==
    LET line == TrimSpace(rawLine)
    IN  IF line = <<>>
        THEN <<>>
        ELSE LET numbered == NumberedItem(line, taskID, 1)
             IN  numbered \o BulletItem(line, taskID + Len(numbered))

RECURSIVE ParseLines(_, _, _)
ParseLines(lines, k, tasks) ==
    IF k > Len(lines)
    THEN tasks
    ELSE ParseLines(lines, k + 1, tasks \o LineTasks(lines[k], Len(tasks) + 1))

\* parsePlanFromText without the check for an empty task list
parsePlanFromText_EmptyPlan(text, now) ==
    IF ~Contains(text, PlanMarker)
    THEN Nil
    ELSE LET parts == Split(text, PlanMarker)
         IN  IF Len(parts) < 2
             THEN Nil
             ELSE LET planText == parts[2]
                      lines    == Split(planText, <<NL>>)
                      tasks    == ParseLines(lines, 1, <<>>)
                  IN  Some([Tasks      |-> tasks,
                            Summary    |-> "Plan with " \o ToString(Len(tasks)) \o " tasks",
                            CreatedAt  |-> now,
                            IsApproved |-> TRUE])

parsePlanFromText(text, now) ==
    IF ~Contains(text, PlanMarker)
    THEN Nil
    ELSE LET parts == Split(text, PlanMarker)
         IN  IF Len(parts) < 2
             THEN Nil
             ELSE LET planText == parts[2]
                      lines    == Split(planText, <<NL>>)
                      tasks    == ParseLines(lines, 1, <<>>)
                  IN  IF Len(tasks) = 0
                      THEN Nil
                      ELSE Some([Tasks      |-> tasks,
                                 Summary    |-> "Plan with " \o ToString(Len(tasks)) \o " tasks",
                                 CreatedAt  |-> now,
                                 IsApproved |-> TRUE])

\* ------------------------------------------------------------------------
\* Run State (state.AgentState) and its transitions

NewAgentState ==
    [Messages       |-> <<>>,
     Plan           |-> Nil,
     CurrentTask    |-> Nil,
     Errors         |-> <<>>,
     CompletedTasks |-> <<>>]

\* FindTask without the comparison of the IDs: the first task always matches
FindTask_First(tasks, taskID) == IF Len(tasks) > 0 THEN 1 ELSE 0

\* the index of the first task of the plan whose ID is taskID (the loop with
\* break); 0 when there is none
FindTask(tasks, taskID) ==
    IF \E k \in 1..Len(tasks) : tasks[k].ID = taskID
    THEN CHOOSE k \in 1..Len(tasks) :
            /\ tasks[k].ID = taskID
            /\ \A j \in 1..(k - 1) : tasks[j].ID # taskID
    ELSE 0

\* StartTask without the assignment of CurrentTask
StartTask_NoCurrentTask(s, taskID, t) ==
    IF s.Plan = Nil
    THEN s
    ELSE LET k == FindTask(s.Plan[1].Tasks, taskID)
         IN  IF k = 0
             THEN s
             ELSE [s EXCEPT !.Plan[1].Tasks[k].Status    = "in_progress",
                            !.Plan[1].Tasks[k].StartedAt = Some(t)]

StartTask(s, taskID, t) ==
    IF s.Plan = Nil
    THEN s
    ELSE LET k == FindTask(s.Plan[1].Tasks, taskID)
         IN  IF k = 0
             THEN s
             ELSE [s EXCEPT !.Plan[1].Tasks[k].Status    = "in_progress",
                            !.Plan[1].Tasks[k].StartedAt = Some(t),
                            !.CurrentTask                = Some(k)]

\* MarkTaskComplete that appends the task as it was before the update
MarkTaskComplete_StaleSnapshot(s, taskID, output, t) ==
    IF s.Plan = Nil
    THEN s
    ELSE LET k == FindTask(s.Plan[1].Tasks, taskID)
         IN  IF k = 0
             THEN s
             ELSE LET done == [s.Plan[1].Tasks[k] EXCEPT !.Status      = "completed",
                                                         !.Output      = output,
                                                         !.CompletedAt = Some(t)]
                  IN  [s EXCEPT !.Plan[1].Tasks[k] = done,
                                !.CompletedTasks   = Append(s.CompletedTasks,
                                                            s.Plan[1].Tasks[k])]

\* MarkTaskComplete that stores the output as the task's description too
MarkTaskComplete_OverwritesDescription(s, taskID, output, t) ==
    IF s.Plan = Nil
    THEN s
    ELSE LET k == FindTask(s.Plan[1].Tasks, taskID)
         IN  IF k = 0
             THEN s
             ELSE LET done == [s.Plan[1].Tasks[k] EXCEPT !.Status      = "completed",
                                                         !.Description = output,
                                                         !.Output      = output,
                                                         !.CompletedAt = Some(t)]
                  IN  [s EXCEPT !.Plan[1].Tasks[k] = done,
                                !.CompletedTasks   = Append(s.CompletedTasks, done)]

MarkTaskComplete(s, taskID, output, t) ==
    IF s.Plan = Nil
    THEN s
    ELSE LET k == FindTask(s.Plan[1].Tasks, taskID)
         IN  IF k = 0
             THEN s
             ELSE LET done == [s.Plan[1].Tasks[k] EXCEPT !.Status      = "completed",
                                                         !.Output      = output,
                                                         !.CompletedAt = Some(t)]
                  IN  [s EXCEPT !.Plan[1].Tasks[k] = done,
                                !.CompletedTasks   = Append(s.CompletedTasks, done)]

\* MarkTaskFailed without the assignment of CompletedAt
MarkTaskFailed_NoCompletedAt(s, taskID, err, t) ==
    IF s.Plan = Nil
    THEN s
    ELSE LET k == FindTask(s.Plan[1].Tasks, taskID)
         IN  IF k = 0
             THEN s
             ELSE [s EXCEPT !.Plan[1].Tasks[k].Status = "failed",
                            !.Plan[1].Tasks[k].Error  = err,
                            !.Errors                  = Append(s.Errors, err)]

\* MarkTaskFailed that puts the error at the head of the error list
MarkTaskFailed_Prepends(s, taskID, err, t) ==
    IF s.Plan = Nil
    THEN s
    ELSE LET k == FindTask(s.Plan[1].Tasks, taskID)
         IN  IF k = 0
             THEN s
             ELSE [s EXCEPT !.Plan[1].Tasks[k].Status      = "failed",
                            !.Plan[1].Tasks[k].Error       = err,
                            !.Plan[1].Tasks[k].CompletedAt = Some(t),
                            !.Errors                       = <<err>> \o s.Errors]

\* MarkTaskFailed without the assignment of the status
MarkTaskFailed_KeepsStatus(s, taskID, err, t) ==
    IF s.Plan = Nil
    THEN s
    ELSE LET k == FindTask(s.Plan[1].Tasks, taskID)
         IN  IF k = 0
             THEN s
             ELSE [s EXCEPT !.Plan[1].Tasks[k].Error       = err,
                            !.Plan[1].Tasks[k].CompletedAt = Some(t),
                            !.Errors                       = Append(s.Errors, err)]

\* MarkTaskFailed without the append to the error list
MarkTaskFailed_NoErrorAppend(s, taskID, err, t) ==
    IF s.Plan = Nil
    THEN s
    ELSE LET k == FindTask(s.Plan[1].Tasks, taskID)
         IN  IF k = 0
             THEN s
             ELSE [s EXCEPT !.Plan[1].Tasks[k].Status      = "failed",
                            !.Plan[1].Tasks[k].Error       = err,
                            !.Plan[1].Tasks[k].CompletedAt = Some(t)]

\* MarkTaskFailed that also appends the task to the completed list, as
\* MarkTaskComplete does
MarkTaskFailed_AlsoCompleted(s, taskID, err, t) ==
    IF s.Plan = Nil
    THEN s
    ELSE LET k == FindTask(s.Plan[1].Tasks, taskID)
         IN  IF k = 0
             THEN s
             ELSE LET failed == [s.Plan[1].Tasks[k] EXCEPT !.Status      = "failed",
                                                           !.Error       = err,
                                                           !.CompletedAt = Some(t)]
                  IN  [s EXCEPT !.Plan[1].Tasks[k] = failed,
                                !.Errors           = Append(s.Errors, err),
                                !.CompletedTasks   = Append(s.CompletedTasks, failed)]

MarkTaskFailed(s, taskID, err, t) ==
    IF s.Plan = Nil
    THEN s
    ELSE LET k == FindTask(s.Plan[1].Tasks, taskID)
         IN  IF k = 0
             THEN s
             ELSE [s EXCEPT !.Plan[1].Tasks[k].Status      = "failed",
                            !.Plan[1].Tasks[k].Error       = err,
                            !.Plan[1].Tasks[k].CompletedAt = Some(t),
                            !.Errors                       = Append(s.Errors, err)]

\* ------------------------------------------------------------------------
\* The environment: Completion Service responses and Action Executor outcomes

MaxTasks == 2

MaxToolCalls == 2

PlannerRounds == 5

maxIterations == 15

StatResults == {"exists", "not_exist", "permission_denied"}

ErrTexts == {"timeout", "API error (status 500)"}

ToolNames == {"bash", "read_file", "write_file", "list_files", "search"}

\* A Go string whose bytes the program does not look at, a tool output or an
\* error text, is a sequence of pieces; a piece is the len bytes that start at
\* offset from of the text it names. Str(text, n) is the text of n bytes.
Str(text, n) == IF n = 0 THEN <<>> ELSE <<[text |-> text, from |-> 0, len |-> n]>>

\* len(s)
RECURSIVE StrLen(_)
StrLen(s) == IF s = <<>> THEN 0 ELSE Head(s).len + StrLen(Tail(s))

\* s[:n], for n <= len(s)
RECURSIVE Prefix(_, _)
Prefix(s, n) ==
    IF n = 0 \/ s = <<>>
    THEN <<>>
    ELSE IF Head(s).len <= n
         THEN <<Head(s)>> \o Prefix(Tail(s), n - Head(s).len)
         ELSE <<[Head(s) EXCEPT !.len = n]>>

\* the number of bytes of a tool name
NameLen(name) ==
    CASE name = "bash"        -> 4
      [] name = "search"      -> 6
      [] name = "read_file"   -> 9
      [] name = "write_file"  -> 10
      [] name = "list_files"  -> 10
      [] name = "format_disk" -> 11

\* what the operation behind a tool can do: return the output text, or fail
\* with the error text
ToolOutcomes ==
    {[fails |-> FALSE, text |-> Str("ok", 2)],
     [fails |-> TRUE,  text |-> Str("failed", 6)]}

\* tools.ToolExecutor.Execute: outcome is what the named operation does; the
\* error is Nil or Some(its text)
Execute(name, outcome) ==
    IF name \notin ToolNames
    THEN [output |-> <<>>,
          err    |-> Some(Str("unknown tool: ", 14) \o Str(name, NameLen(name)))]
    ELSE IF outcome.fails
         THEN [output |-> <<>>, err |-> Some(outcome.text)]
         ELSE [output |-> outcome.text, err |-> Nil]

\* the output of one invocation before it is cut: the error of a failed
\* Execute call is formatted with "Error: %v"
ToolOutput(name, outcome) ==
    LET r == Execute(name, outcome)
    IN  IF r.err # Nil THEN Str("Error: ", 7) \o r.err[1] ELSE r.output

PlannerOutputBudget == 5000

ExecutorOutputBudget == 10000

PlannerMarker == Str("\n... (truncated)", 16)

ExecutorMarker == Str("\n... (output truncated)", 23)

\* a cut that starts at the budget instead of above it
Truncate_AtBudget(output, budget, marker) ==
    IF StrLen(output) >= budget
    THEN Prefix(output, budget) \o marker
    ELSE output

\* if len(output) > budget { output = output[:budget] + marker }
Truncate(output, budget, marker) ==
    IF StrLen(output) > budget
    THEN Prefix(output, budget) \o marker
    ELSE output

\* the tool invocations one response can carry
ToolCallPool ==
    << [ID |-> "tu_1", Name |-> "read_file"],
       [ID |-> "tu_2", Name |-> "format_disk"],
       [ID |-> "tu_3", Name |-> "bash"] >>

ToolCallSeqs == {SubSeq(ToolCallPool, 1, n) : n \in 0..MaxToolCalls}

\* a well-formed plan text of n numbered lines
RECURSIVE PlanLines(_)
PlanLines(n) ==
    IF n = 0
    THEN <<>>
    ELSE PlanLines(n - 1) \o <<NL, ToString(n), ".", " ", "d", ToString(n)>>

TextThinking == <<"t", "h", "i", "n", "k", "i", "n", "g">>

TextMarkerOnly == <<"P", "L", "A", "N", ":", NL, "n", "o", "t", "h", "i", "n", "g">>

TextMixedPlan ==
    <<"P", "L", "A", "N", ":", NL, "1", ".", " ", "a", NL, "-", " ", "b", NL, "n", "o", "t", "e", NL, "1", "0", ".", " ", "c">>

TextTwoMarkers ==
    <<"P", "L", "A", "N", ":", NL, "*", " ", "a", NL, "P", "L", "A", "N", ":", NL, "2", ".", " ", "b">>

PlanTexts ==
    {<<>>, TextThinking, TextMarkerOnly, TextMixedPlan, TextTwoMarkers}
        \cup {PlanMarker \o PlanLines(n) : n \in 1..MaxTasks}

TextWorking == <<"W", "o", "r", "k", "i", "n", "g", " ", "o", "n", " ", "i", "t">>

TextTaskCompleted == <<"T", "a", "s", "k", " ", "c", "o", "m", "p", "l", "e", "t", "e", "d">>

TextTaskCompleteUpper == <<"T", "A", "S", "K", " ", "C", "O", "M", "P", "L", "E", "T", "E", ".">>

TextSuccessfully ==
    <<"S", "u", "c", "c", "e", "s", "s", "f", "u", "l", "l", "y", " ", "c", "o", "m", "p", "l", "e", "t", "e", "d">>

TextDone == <<"d", "o", "n", "e">>

ExecTexts ==
    {<<>>, TextWorking, TextTaskCompleted, TextTaskCompleteUpper, TextSuccessfully, TextDone}

FallbackOutput ==
    <<"T", "a", "s", "k", " ", "c", "o", "m", "p", "l", "e", "t", "e", "d", " ", "(", "m", "a", "x", " ", "i", "t", "e", "r", "a", "t", "i", "o", "n", "s", " ", "r", "e", "a", "c", "h", "e", "d", ")">>

PhraseTaskCompleted ==
    <<"t", "a", "s", "k", " ", "c", "o", "m", "p", "l", "e", "t", "e", "d">>

PhraseTaskComplete ==
    <<"t", "a", "s", "k", " ", "c", "o", "m", "p", "l", "e", "t", "e">>

PhraseSuccessfully ==
    <<"s", "u", "c", "c", "e", "s", "s", "f", "u", "l", "l", "y", " ", "c", "o", "m", "p", "l", "e", "t", "e", "d">>

PhraseDone == <<"d", "o", "n", "e">>

\* the completion test of the Executor loop, with Go's precedence: && binds
\* tighter than ||, so i > 0 qualifies the last phrase only
IsCompletion(text, i) ==
    \/ Contains(ToLower(text), PhraseTaskCompleted)
    \/ Contains(ToLower(text), PhraseTaskComplete)
    \/ Contains(ToLower(text), PhraseSuccessfully)
    \/ (Contains(ToLower(text), PhraseDone) /\ i > 0)

\* ------------------------------------------------------------------------
\* State

VARIABLES
    agentState,    \* Orchestrator.state
    dirStat,       \* what os.Stat reports for the working directory
    pc,            \* where Run is: "start", "planning", "executing", "in_task", "returned"
    planI,         \* the loop variable i of GeneratePlan
    runI,          \* the loop variable i of Run
    execI,         \* the loop variable i of ExecuteTask
    now,           \* the clock read by time.Now
    runErr,        \* the error Run returned ("" for nil)
    summary,       \* what displaySummary computed (Nil before it ran)
    planResp,      \* the last response GeneratePlan received (Nil before the first)
    planLog,       \* GeneratePlan observed: invocations, CreateMessage calls, result
    execLog,       \* ExecuteTask observed: one record per invocation
    execLLMErrs,   \* per ExecuteTask invocation, the CreateMessage calls that failed
    execCalls,     \* CreateMessage calls of the current (or last) ExecuteTask
    toolExecuted,  \* whether ToolExecutor.Execute has been called
    recording,     \* whether the conversation is recorded (fixed at Init)
    messages,      \* the local messages of GeneratePlan / ExecuteTask, if recorded
    lastRequest,   \* the last request CreateMessage received, if recorded
    parseIn,       \* a text handed to parsePlanFromText on its own
    parseOut,      \* what parsePlanFromText returned for parseIn (Nil before the call)
    toolIn,        \* a tool invocation and its outcome handled on their own
    toolResult     \* the tool results built for toolIn (Nil before)

vars ==
    <<agentState, dirStat, pc, planI, runI, execI, now, runErr, summary,
      planResp, planLog, execLog, execLLMErrs, execCalls, toolExecuted,
      recording, messages, lastRequest, parseIn, parseOut, toolIn, toolResult>>

Tasks == IF agentState.Plan = Nil THEN <<>> ELSE agentState.Plan[1].Tasks

CountStatus(tasks, st) == Cardinality({k \in 1..Len(tasks) : tasks[k].Status = st})

\* the counts displaySummary reports
displaySummary(s) ==
    [completed |-> CountStatus(s.Plan[1].Tasks, "completed"),
     failed    |-> CountStatus(s.Plan[1].Tasks, "failed"),
     pending   |-> CountStatus(s.Plan[1].Tasks, "pending"),
     errors    |-> s.Errors,
     total     |-> Len(s.Plan[1].Tasks)]

\* the state when Run is called on a new Orchestrator
RunEntry ==
    /\ agentState = NewAgentState
    /\ pc = "start"
    /\ planI = 0
    /\ runI = 0
    /\ execI = 0
    /\ now = 1
    /\ runErr = ""
    /\ summary = Nil
    /\ planResp = Nil
    /\ planLog = [invoked |-> 0, calls |-> 0, finalCalls |-> 0,
                  returned |-> FALSE, err |-> ""]
    /\ execLog = <<>>
    /\ execLLMErrs = <<>>
    /\ execCalls = 0
    /\ toolExecuted = FALSE
    /\ messages = <<>>
    /\ lastRequest = Nil

Init ==
    /\ RunEntry
    /\ dirStat \in StatResults
    /\ recording = FALSE
    /\ parseIn = <<>>
    /\ parseOut = Nil
    /\ toolIn = Nil
    /\ toolResult = Nil

\* Run with the conversation of GeneratePlan and of ExecuteTask recorded
ConvInit ==
    /\ RunEntry
    /\ dirStat \in StatResults
    /\ recording = TRUE
    /\ parseIn = <<>>
    /\ parseOut = Nil
    /\ toolIn = Nil
    /\ toolResult = Nil

\* ------------------------------------------------------------------------
\* The conversation with the Completion Service. A text is a sequence of
\* pieces whose concatenation is the Go string: a response text is cut into its
\* characters, a fixed prompt is one piece.

MaxVariedRounds == 2

\* when the conversation is recorded, the responses of a loop vary in its first
\* MaxVariedRounds rounds only and are drawn from smaller sets
LLMErrors == IF recording THEN {"timeout"} ELSE ErrTexts

PlannerTexts == IF recording THEN {TextThinking, TextMixedPlan} ELSE PlanTexts

\* (a recorded response with tool invocations has the plan marker in its text)
PlannerToolTexts == IF recording THEN {TextMixedPlan} ELSE PlanTexts

ExecutorTexts(i) ==
    IF recording
    THEN IF i < MaxVariedRounds
         THEN {<<>>, TextWorking, TextTaskCompleted}
         ELSE {TextWorking, TextTaskCompleted}
    ELSE ExecTexts

\* (a recorded response with tool invocations has a completion phrase in its text)
ExecutorToolTexts == IF recording THEN {TextTaskCompleted} ELSE ExecTexts

ToolRoundOffered(i) == recording => i < MaxVariedRounds

OriginalRequest == "request"

TextContent(text) == [Type |-> "text", Text |-> text]

ToolUseContent(toolCall) ==
    [Type |-> "tool_use", ID |-> toolCall.ID, Name |-> toolCall.Name]

ToolResultContent(toolUseID, content, isError) ==
    [Type |-> "tool_result", ToolUseID |-> toolUseID, Content |-> content,
     IsError |-> isError]

AnthropicMessage(role, content) == [Role |-> role, Content |-> content]

\* response.Content of a response with the given text and tool invocations
ResponseContent(text, toolCalls) ==
    (IF text = <<>> THEN <<>> ELSE <<TextContent(text)>>)
        \o [k \in 1..Len(toolCalls) |-> ToolUseContent(toolCalls[k])]

FinalInstruction ==
    <<"Based on your exploration, please provide a concrete plan in the format:\nPLAN:\n1. [Task description]\n2. [Task description]\n...">>

NudgeText ==
    <<"Please proceed with implementing this task using the available tools.">>

buildContextMessages(s) ==
    << AnthropicMessage("user",
          <<TextContent(
               <<"Please analyze this codebase and create a detailed plan to complete the following request:\n\nREQUEST: ",
                 OriginalRequest,
                 "\n\nFirst, explore the codebase structure to understand:\n1. The project layout and key files\n2. The technology stack and dependencies\n3. Existing patterns and conventions\n4. Relevant code sections for this task\n\nThen provide a concrete, step-by-step plan to complete the request.">>)>>) >>

\* the digest of buildTaskMessages: one "- description" line per completed task
RECURSIVE CompletedDigest(_)
CompletedDigest(completed) ==
    IF completed = <<>>
    THEN <<>>
    ELSE <<"- ">> \o Head(completed).Description \o <<NL>>
            \o CompletedDigest(Tail(completed))

\* the digest of every task of the plan that has ended, completed or failed
RECURSIVE FinishedDigest(_)
FinishedDigest(tasks) ==
    IF tasks = <<>>
    THEN <<>>
    ELSE (IF Head(tasks).Status \in {"completed", "failed"}
          THEN <<"- ">> \o Head(tasks).Description \o <<NL>>
          ELSE <<>>)
            \o FinishedDigest(Tail(tasks))

\* buildTaskMessages that lists the failed tasks too
buildTaskMessages_ListsFailed(s, task) ==
    LET context == IF FinishedDigest(s.Plan[1].Tasks) # <<>>
                   THEN <<"Previously completed tasks:\n">>
                           \o FinishedDigest(s.Plan[1].Tasks) \o <<NL>>
                   ELSE <<>>
    IN  << AnthropicMessage("user",
              <<TextContent(
                   context \o <<"Current task to implement:\n">> \o task.Description
                      \o <<"\n\nOriginal request context: ", OriginalRequest>>)>>) >>

buildTaskMessages(s, task) ==
    LET context == IF Len(s.CompletedTasks) > 0
                   THEN <<"Previously completed tasks:\n">>
                           \o CompletedDigest(s.CompletedTasks) \o <<NL>>
                   ELSE <<>>
    IN  << AnthropicMessage("user",
              <<TextContent(
                   context \o <<"Current task to implement:\n">> \o task.Description
                      \o <<"\n\nOriginal request context: ", OriginalRequest,
                           "\n\nPlease implement this task step by step. Use the available tools to:\n1. Read relevant files to understand the code\n2. Make necessary changes\n3. Test your changes if applicable\n4. Verify the implementation\n\nWhen the task is complete, say \"Task completed\" with a brief summary.">>)>>) >>

\* the tool results GeneratePlan builds for the invocations of one response
\* tool results in the reverse order of the invocations
PlannerToolResults_Reversed(toolCalls, outcomes) ==
    [k \in 1..Len(toolCalls) |->
        LET j == Len(toolCalls) + 1 - k
        IN  ToolResultContent(toolCalls[j].ID,
                              Truncate(ToolOutput(toolCalls[j].Name, outcomes[j]),
                                       PlannerOutputBudget, PlannerMarker),
                              FALSE)]

PlannerToolResults(toolCalls, outcomes) ==
    [k \in 1..Len(toolCalls) |->
        ToolResultContent(toolCalls[k].ID,
                          Truncate(ToolOutput(toolCalls[k].Name, outcomes[k]),
                                   PlannerOutputBudget, PlannerMarker),
                          FALSE)]

\* tool results that stop at the first invocation that fails
ExecutorToolResults_StopAtFailure(toolCalls, outcomes) ==
    LET failing == {k \in 1..Len(toolCalls) :
                       Execute(toolCalls[k].Name, outcomes[k]).err # Nil}
        n == IF failing = {}
             THEN Len(toolCalls)
             ELSE CHOOSE k \in failing : \A j \in failing : k <= j
    IN  [k \in 1..n |->
            ToolResultContent(toolCalls[k].ID,
                              Truncate(ToolOutput(toolCalls[k].Name, outcomes[k]),
                                       ExecutorOutputBudget, ExecutorMarker),
                              Execute(toolCalls[k].Name, outcomes[k]).err # Nil)]

\* the tool results ExecuteTask builds for the invocations of one response
ExecutorToolResults(toolCalls, outcomes) ==
    [k \in 1..Len(toolCalls) |->
        ToolResultContent(toolCalls[k].ID,
                          Truncate(ToolOutput(toolCalls[k].Name, outcomes[k]),
                                   ExecutorOutputBudget, ExecutorMarker),
                          Execute(toolCalls[k].Name, outcomes[k]).err # Nil)]

\* the conversation as it is kept in the state
Recorded(msgs) == IF recording THEN msgs ELSE <<>>

\* CreateMessage is called with msgs and with the tool schemas or without
Request(msgs, tools) ==
    IF recording THEN Some([messages |-> msgs, tools |-> tools]) ELSE Nil

\* ------------------------------------------------------------------------
\* Orchestrator.Run up to the call of GeneratePlan

RunNoDirectory ==
    /\ pc = "start"
    /\ dirStat = "not_exist"
    /\ pc' = "returned"
    /\ runErr' = "working directory does not exist"
    /\ UNCHANGED <<agentState, dirStat, recording, messages, lastRequest, parseIn, parseOut, toolIn, toolResult,
                   planI, runI, execI, now, summary,
                   planResp, planLog, execLog, execLLMErrs, execCalls, toolExecuted>>

\* RunStartPlanning without the os.Stat check
RunStartPlanning_NoStatCheck ==
    /\ pc = "start"
    /\ pc' = "planning"
    /\ planI' = 0
    /\ planLog' = [planLog EXCEPT !.invoked = @ + 1]
    /\ messages' = Recorded(buildContextMessages(agentState))
    /\ UNCHANGED <<agentState, dirStat, recording, lastRequest, parseIn, parseOut, toolIn, toolResult,
                   runI, execI, now, runErr, summary,
                   planResp, execLog, execLLMErrs, execCalls, toolExecuted>>

RunStartPlanning ==
    /\ pc = "start"
    /\ dirStat # "not_exist"
    /\ pc' = "planning"
    /\ planI' = 0
    /\ planLog' = [planLog EXCEPT !.invoked = @ + 1]
    /\ messages' = Recorded(buildContextMessages(agentState))
    /\ UNCHANGED <<agentState, dirStat, recording, lastRequest, parseIn, parseOut, toolIn, toolResult,
                   runI, execI, now, runErr, summary,
                   planResp, execLog, execLLMErrs, execCalls, toolExecuted>>

\* Run that drops the error of GeneratePlan and looks at the plan only
AfterGeneratePlan_DropsError(s, err) ==
    IF s.Plan = Nil \/ Len(s.Plan[1].Tasks) = 0
    THEN /\ pc' = "returned"
         /\ runErr' = "no plan generated"
    ELSE /\ pc' = "executing"
         /\ runErr' = ""

\* Run after GeneratePlan returned err ("" for nil) with Run State s
AfterGeneratePlan(s, err) ==
    IF err # ""
    THEN /\ pc' = "returned"
         /\ runErr' = "planning failed: " \o err
    ELSE IF s.Plan = Nil \/ Len(s.Plan[1].Tasks) = 0
         THEN /\ pc' = "returned"
              /\ runErr' = "no plan generated"
         ELSE /\ pc' = "executing"
              /\ runErr' = ""

\* ------------------------------------------------------------------------
\* Planner.GeneratePlan: one Completion Service call per step

\* what CreateMessage and ParseContent hand to the loop
Response(err, text, toolCalls) ==
    Some([err |-> err, text |-> text, toolCalls |-> toolCalls])

\* GeneratePlan that leaves a placeholder plan behind when it fails
ReturnFromGeneratePlan_Placeholder(s, err) ==
    /\ agentState' = IF err = ""
                     THEN s
                     ELSE [s EXCEPT !.Plan = Some([Tasks      |-> <<>>,
                                                   Summary    |-> "Plan with 0 tasks",
                                                   CreatedAt  |-> now,
                                                   IsApproved |-> TRUE])]
    /\ planLog' = [planLog EXCEPT !.calls = IF planI < PlannerRounds THEN @ + 1 ELSE @,
                                  !.finalCalls = IF planI < PlannerRounds THEN @ ELSE @ + 1,
                                  !.returned = TRUE,
                                  !.err = err]
    /\ AfterGeneratePlan(s, err)

\* GeneratePlan returns err ("" for nil) with Run State s
ReturnFromGeneratePlan(s, err) ==
    /\ agentState' = s
    /\ planLog' = [planLog EXCEPT !.calls = IF planI < PlannerRounds THEN @ + 1 ELSE @,
                                  !.finalCalls = IF planI < PlannerRounds THEN @ ELSE @ + 1,
                                  !.returned = TRUE,
                                  !.err = err]
    /\ AfterGeneratePlan(s, err)

\* a Planner that goes to its next round when CreateMessage fails
PlannerLLMError_Retries ==
    /\ pc = "planning"
    /\ planI < PlannerRounds
    /\ \E e \in LLMErrors : planResp' = Response(e, <<>>, <<>>)
    /\ planI' = planI + 1
    /\ planLog' = [planLog EXCEPT !.calls = @ + 1]
    /\ lastRequest' = Request(messages, "all")
    /\ UNCHANGED <<agentState, dirStat, recording, messages, parseIn, parseOut, toolIn, toolResult,
                   pc, runI, execI, now, runErr, summary,
                   execLog, execLLMErrs, execCalls, toolExecuted>>

PlannerLLMError ==
    /\ pc = "planning"
    /\ planI < PlannerRounds
    /\ \E e \in LLMErrors :
          /\ planResp' = Response(e, <<>>, <<>>)
          /\ ReturnFromGeneratePlan(agentState, "failed to get LLM response: " \o e)
    /\ lastRequest' = Request(messages, "all")
    /\ UNCHANGED <<dirStat, recording, messages, parseIn, parseOut, toolIn, toolResult,
                   planI, runI, execI, now, summary,
                   execLog, execLLMErrs, execCalls, toolExecuted>>

PlannerToolRound ==
    /\ pc = "planning"
    /\ planI < PlannerRounds
    /\ ToolRoundOffered(planI)
    /\ \E text \in PlannerToolTexts, toolCalls \in ToolCallSeqs :
          /\ Len(toolCalls) > 0
          /\ planResp' = Response("", text, toolCalls)
          /\ \E outcomes \in [1..Len(toolCalls) -> ToolOutcomes] :
                LET toolResults == PlannerToolResults(toolCalls, outcomes)
                IN  /\ toolExecuted' = (Len(toolResults) > 0 \/ toolExecuted)
                    /\ messages' = Recorded(
                          messages \o
                             <<AnthropicMessage("assistant",
                                                ResponseContent(text, toolCalls)),
                               AnthropicMessage("user", toolResults)>>)
    /\ lastRequest' = Request(messages, "all")
    /\ planI' = planI + 1
    /\ planLog' = [planLog EXCEPT !.calls = @ + 1]
    /\ UNCHANGED <<agentState, dirStat, recording, parseIn, parseOut, toolIn, toolResult,
                   pc, runI, execI, now, runErr, summary,
                   execLog, execLLMErrs, execCalls>>

\* a response without tool invocations whose text yields a plan
PlannerPlanFound ==
    /\ pc = "planning"
    /\ planI < PlannerRounds
    /\ \E text \in PlannerTexts :
          /\ Contains(text, PlanMarker)
          /\ parsePlanFromText(text, now) # Nil
          /\ planResp' = Response("", text, <<>>)
          /\ ReturnFromGeneratePlan(
                [agentState EXCEPT !.Plan = parsePlanFromText(text, now)], "")
    /\ now' = now + 1
    /\ lastRequest' = Request(messages, "all")
    /\ UNCHANGED <<dirStat, recording, messages, parseIn, parseOut, toolIn, toolResult,
                   planI, runI, execI, summary,
                   execLog, execLLMErrs, execCalls, toolExecuted>>

\* a Planner that appends every response it receives to its history
PlannerNoPlan_AppendsResponse ==
    /\ pc = "planning"
    /\ planI < PlannerRounds
    /\ \E text \in PlannerTexts :
          /\ ~(Contains(text, PlanMarker) /\ parsePlanFromText(text, now) # Nil)
          /\ planResp' = Response("", text, <<>>)
          /\ messages' = Recorded(
                Append(messages,
                       AnthropicMessage("assistant", ResponseContent(text, <<>>))))
    /\ planI' = planI + 1
    /\ planLog' = [planLog EXCEPT !.calls = @ + 1]
    /\ lastRequest' = Request(messages, "all")
    /\ UNCHANGED <<agentState, dirStat, recording, parseIn, parseOut, toolIn, toolResult,
                   pc, runI, execI, now, runErr, summary,
                   execLog, execLLMErrs, execCalls, toolExecuted>>

\* a response without tool invocations whose text yields no plan
PlannerNoPlan ==
    /\ pc = "planning"
    /\ planI < PlannerRounds
    /\ \E text \in PlannerTexts :
          /\ ~(Contains(text, PlanMarker) /\ parsePlanFromText(text, now) # Nil)
          /\ planResp' = Response("", text, <<>>)
    /\ planI' = planI + 1
    /\ planLog' = [planLog EXCEPT !.calls = @ + 1]
    /\ lastRequest' = Request(messages, "all")
    /\ UNCHANGED <<agentState, dirStat, recording, messages, parseIn, parseOut, toolIn, toolResult,
                   pc, runI, execI, now, runErr, summary,
                   execLog, execLLMErrs, execCalls, toolExecuted>>

\* the final request, sent with tools = nil once the exploration rounds are used
\* up: no tool schema is offered, so its response carries no tool invocation
PlannerFinalError ==
    /\ pc = "planning"
    /\ planI = PlannerRounds
    /\ \E e \in LLMErrors :
          /\ planResp' = Response(e, <<>>, <<>>)
          /\ ReturnFromGeneratePlan(agentState, "failed to get final plan: " \o e)
    /\ messages' =
          Recorded(Append(messages,
                          AnthropicMessage("user", <<TextContent(FinalInstruction)>>)))
    /\ lastRequest' = Request(messages', "none")
    /\ UNCHANGED <<dirStat, recording, parseIn, parseOut, toolIn, toolResult,
                   planI, runI, execI, now, summary,
                   execLog, execLLMErrs, execCalls, toolExecuted>>

\* a final request that is one more exploration request
PlannerFinalPlan_WithTools ==
    /\ pc = "planning"
    /\ planI = PlannerRounds
    /\ \E text \in PlannerTexts :
          /\ parsePlanFromText(text, now) # Nil
          /\ planResp' = Response("", text, <<>>)
          /\ ReturnFromGeneratePlan(
                [agentState EXCEPT !.Plan = parsePlanFromText(text, now)], "")
    /\ now' = now + 1
    /\ lastRequest' = Request(messages, "all")
    /\ UNCHANGED <<dirStat, recording, messages, parseIn, parseOut, toolIn, toolResult,
                   planI, runI, execI, summary,
                   execLog, execLLMErrs, execCalls, toolExecuted>>

PlannerFinalPlan ==
    /\ pc = "planning"
    /\ planI = PlannerRounds
    /\ \E text \in PlannerTexts :
          /\ parsePlanFromText(text, now) # Nil
          /\ planResp' = Response("", text, <<>>)
          /\ ReturnFromGeneratePlan(
                [agentState EXCEPT !.Plan = parsePlanFromText(text, now)], "")
    /\ now' = now + 1
    /\ messages' =
          Recorded(Append(messages,
                          AnthropicMessage("user", <<TextContent(FinalInstruction)>>)))
    /\ lastRequest' = Request(messages', "none")
    /\ UNCHANGED <<dirStat, recording, parseIn, parseOut, toolIn, toolResult,
                   planI, runI, execI, summary,
                   execLog, execLLMErrs, execCalls, toolExecuted>>

PlannerFinalNoPlan ==
    /\ pc = "planning"
    /\ planI = PlannerRounds
    /\ \E text \in PlannerTexts :
          /\ parsePlanFromText(text, now) = Nil
          /\ planResp' = Response("", text, <<>>)
    /\ ReturnFromGeneratePlan(agentState, "failed to generate a valid plan")
    /\ messages' =
          Recorded(Append(messages,
                          AnthropicMessage("user", <<TextContent(FinalInstruction)>>)))
    /\ lastRequest' = Request(messages', "none")
    /\ UNCHANGED <<dirStat, recording, parseIn, parseOut, toolIn, toolResult,
                   planI, runI, execI, now, summary,
                   execLog, execLLMErrs, execCalls, toolExecuted>>

\* ------------------------------------------------------------------------
\* Executor.ExecuteTask, called by the loop of Run over the plan's tasks

\* the task Run passes to ExecuteTask: &o.state.Plan.Tasks[i]
RunTask == Tasks[runI + 1]

\* ExecuteTask that goes on with the conversation it finds
ExecuteTaskStart_KeepsHistory ==
    /\ pc = "executing"
    /\ runI < Len(Tasks)
    /\ agentState' = StartTask(agentState, RunTask.ID, now)
    /\ now' = now + 1
    /\ execI' = 0
    /\ pc' = "in_task"
    /\ execLog' = Append(execLog, [ID |-> RunTask.ID, returned |-> FALSE, err |-> ""])
    /\ execLLMErrs' = Append(execLLMErrs, 0)
    /\ execCalls' = 0
    /\ messages' = Recorded(messages \o buildTaskMessages(agentState', RunTask))
    /\ UNCHANGED <<dirStat, recording, lastRequest, parseIn, parseOut, toolIn, toolResult,
                   planI, runI, runErr, summary, planResp, planLog,
                   toolExecuted>>

ExecuteTaskStart ==
    /\ pc = "executing"
    /\ runI < Len(Tasks)
    /\ agentState' = StartTask(agentState, RunTask.ID, now)
    /\ now' = now + 1
    /\ execI' = 0
    /\ pc' = "in_task"
    /\ execLog' = Append(execLog, [ID |-> RunTask.ID, returned |-> FALSE, err |-> ""])
    /\ execLLMErrs' = Append(execLLMErrs, 0)
    /\ execCalls' = 0
    /\ messages' = Recorded(buildTaskMessages(agentState', RunTask))
    /\ UNCHANGED <<dirStat, recording, lastRequest, parseIn, parseOut, toolIn, toolResult,
                   planI, runI, runErr, summary, planResp, planLog,
                   toolExecuted>>

\* Run whose loop breaks at the first task that returns an error
ReturnFromExecuteTask_StopOnError(s, err) ==
    /\ agentState' = s
    /\ execCalls' = execCalls + 1
    /\ execLog' = [execLog EXCEPT ![Len(execLog)].returned = TRUE,
                                  ![Len(execLog)].err = err]
    /\ runI' = runI + 1
    /\ IF runI + 1 < Len(s.Plan[1].Tasks) /\ err = ""
       THEN /\ pc' = "executing"
            /\ summary' = summary
            /\ runErr' = runErr
       ELSE /\ pc' = "returned"
            /\ summary' = Some(displaySummary(s))
            /\ runErr' = ""

\* Run that returns the error of a task instead of going on
ReturnFromExecuteTask_PropagateError(s, err) ==
    /\ agentState' = s
    /\ execCalls' = execCalls + 1
    /\ execLog' = [execLog EXCEPT ![Len(execLog)].returned = TRUE,
                                  ![Len(execLog)].err = err]
    /\ runI' = runI + 1
    /\ IF err # ""
       THEN /\ pc' = "returned"
            /\ summary' = summary
            /\ runErr' = err
       ELSE IF runI + 1 < Len(s.Plan[1].Tasks)
            THEN /\ pc' = "executing"
                 /\ summary' = summary
                 /\ runErr' = runErr
            ELSE /\ pc' = "returned"
                 /\ summary' = Some(displaySummary(s))
                 /\ runErr' = ""

\* ExecuteTask returns err ("" for nil) with Run State s; Run goes to the next
\* task, or past the loop to displaySummary and its own return
ReturnFromExecuteTask(s, err) ==
    /\ agentState' = s
    /\ execCalls' = execCalls + 1
    /\ execLog' = [execLog EXCEPT ![Len(execLog)].returned = TRUE,
                                  ![Len(execLog)].err = err]
    /\ runI' = runI + 1
    /\ IF runI + 1 < Len(s.Plan[1].Tasks)
       THEN /\ pc' = "executing"
            /\ summary' = summary
            /\ runErr' = runErr
       ELSE /\ pc' = "returned"
            /\ summary' = Some(displaySummary(s))
            /\ runErr' = ""

\* an Executor that treats the exhaustion of its rounds as a failure
EndOfRound_FailOnExhaustion ==
    IF execI + 1 < maxIterations
    THEN /\ execI' = execI + 1
         /\ execCalls' = execCalls + 1
         /\ UNCHANGED <<agentState, pc, runI, now, runErr, summary, execLog>>
    ELSE /\ execI' = execI + 1
         /\ now' = now + 1
         /\ ReturnFromExecuteTask(
               MarkTaskFailed(agentState, RunTask.ID, "max iterations reached", now),
               "max iterations reached")

\* an Executor whose loop has no round after which it falls back
EndOfRound_NoFallback ==
    /\ execI' = execI + 1
    /\ execCalls' = execCalls + 1
    /\ UNCHANGED <<agentState, pc, runI, now, runErr, summary, execLog>>

\* the round ends without a return: the loop goes on, or i reaches
\* maxIterations and the task is marked completed with the fallback output
EndOfRound ==
    IF execI + 1 < maxIterations
    THEN /\ execI' = execI + 1
         /\ execCalls' = execCalls + 1
         /\ UNCHANGED <<agentState, pc, runI, now, runErr, summary, execLog>>
    ELSE /\ execI' = execI + 1
         /\ now' = now + 1
         /\ ReturnFromExecuteTask(
               MarkTaskComplete(agentState, RunTask.ID, FallbackOutput, now), "")

ExecutorLLMError ==
    /\ pc = "in_task"
    /\ execI < maxIterations
    /\ \E e \in LLMErrors :
          ReturnFromExecuteTask(MarkTaskFailed(agentState, RunTask.ID, e, now),
                                "LLM error: " \o e)
    /\ execLLMErrs' = [execLLMErrs EXCEPT ![Len(execLLMErrs)] = @ + 1]
    /\ now' = now + 1
    /\ lastRequest' = Request(messages, "all")
    /\ UNCHANGED <<dirStat, recording, messages, parseIn, parseOut, toolIn, toolResult,
                   planI, execI, planResp, planLog, toolExecuted>>

\* an Executor that looks for a completion phrase before it looks for tool
\* invocations
ExecutorToolRound_CompletionFirst ==
    /\ pc = "in_task"
    /\ execI < maxIterations
    /\ ToolRoundOffered(execI)
    /\ \E text \in ExecutorToolTexts, toolCalls \in ToolCallSeqs :
          /\ Len(toolCalls) > 0
          /\ IF IsCompletion(text, execI)
             THEN /\ messages' = Recorded(
                        Append(messages,
                               AnthropicMessage("assistant",
                                                ResponseContent(text, toolCalls))))
                  /\ ReturnFromExecuteTask(
                        MarkTaskComplete(agentState, RunTask.ID, text, now), "")
                  /\ now' = now + 1
                  /\ UNCHANGED <<execI, toolExecuted>>
             ELSE /\ \E outcomes \in [1..Len(toolCalls) -> ToolOutcomes] :
                        LET toolResults == ExecutorToolResults(toolCalls, outcomes)
                        IN  /\ toolExecuted' = (Len(toolResults) > 0 \/ toolExecuted)
                            /\ messages' = Recorded(
                                  messages \o
                                     <<AnthropicMessage("assistant",
                                                        ResponseContent(text, toolCalls)),
                                       AnthropicMessage("user", toolResults)>>)
                  /\ EndOfRound
    /\ lastRequest' = Request(messages, "all")
    /\ UNCHANGED <<dirStat, recording, parseIn, parseOut, toolIn, toolResult,
                   planI, planResp, planLog, execLLMErrs>>

ExecutorToolRound ==
    /\ pc = "in_task"
    /\ execI < maxIterations
    /\ ToolRoundOffered(execI)
    /\ \E text \in ExecutorToolTexts, toolCalls \in ToolCallSeqs :
          /\ Len(toolCalls) > 0
          /\ \E outcomes \in [1..Len(toolCalls) -> ToolOutcomes] :
                LET toolResults == ExecutorToolResults(toolCalls, outcomes)
                IN  /\ toolExecuted' = (Len(toolResults) > 0 \/ toolExecuted)
                    /\ messages' = Recorded(
                          messages \o
                             <<AnthropicMessage("assistant",
                                                ResponseContent(text, toolCalls)),
                               AnthropicMessage("user", toolResults)>>)
    /\ lastRequest' = Request(messages, "all")
    /\ EndOfRound
    /\ UNCHANGED <<dirStat, recording, parseIn, parseOut, toolIn, toolResult,
                   planI, planResp, planLog, execLLMErrs>>

\* a response without tool invocations that the loop takes as completion
ExecutorCompletion ==
    /\ pc = "in_task"
    /\ execI < maxIterations
    /\ \E text \in ExecutorTexts(execI) :
          /\ IsCompletion(text, execI)
          /\ messages' = Recorded(
                Append(messages,
                       AnthropicMessage("assistant", ResponseContent(text, <<>>))))
          /\ ReturnFromExecuteTask(
                MarkTaskComplete(agentState, RunTask.ID, text, now), "")
    /\ now' = now + 1
    /\ lastRequest' = Request(messages, "all")
    /\ UNCHANGED <<dirStat, recording, parseIn, parseOut, toolIn, toolResult,
                   planI, execI, planResp, planLog, execLLMErrs,
                   toolExecuted>>

\* a response without tool invocations that is no completion (in the first
\* round a non-empty one is answered by the nudge turn)
\* an Executor that sends the nudge in every round without tools and completion
ExecutorNoCompletion_NudgesEveryRound ==
    /\ pc = "in_task"
    /\ execI < maxIterations
    /\ \E text \in ExecutorTexts(execI) :
          /\ ~IsCompletion(text, execI)
          /\ messages' = Recorded(
                Append(messages,
                       AnthropicMessage("assistant", ResponseContent(text, <<>>)))
                   \o (IF text # <<>>
                       THEN <<AnthropicMessage("user", <<TextContent(NudgeText)>>)>>
                       ELSE <<>>))
    /\ lastRequest' = Request(messages, "all")
    /\ EndOfRound
    /\ UNCHANGED <<dirStat, recording, parseIn, parseOut, toolIn, toolResult,
                   planI, planResp, planLog, execLLMErrs, toolExecuted>>

ExecutorNoCompletion ==
    /\ pc = "in_task"
    /\ execI < maxIterations
    /\ \E text \in ExecutorTexts(execI) :
          /\ ~IsCompletion(text, execI)
          /\ messages' = Recorded(
                Append(messages,
                       AnthropicMessage("assistant", ResponseContent(text, <<>>)))
                   \o (IF execI = 0 /\ text # <<>>
                       THEN <<AnthropicMessage("user", <<TextContent(NudgeText)>>)>>
                       ELSE <<>>))
    /\ lastRequest' = Request(messages, "all")
    /\ EndOfRound
    /\ UNCHANGED <<dirStat, recording, parseIn, parseOut, toolIn, toolResult,
                   planI, planResp, planLog, execLLMErrs, toolExecuted>>

Next ==
    \/ RunNoDirectory
    \/ RunStartPlanning
    \/ PlannerLLMError
    \/ PlannerToolRound
    \/ PlannerPlanFound
    \/ PlannerNoPlan
    \/ PlannerFinalError
    \/ PlannerFinalPlan
    \/ PlannerFinalNoPlan
    \/ ExecuteTaskStart
    \/ ExecutorLLMError
    \/ ExecutorToolRound
    \/ ExecutorCompletion
    \/ ExecutorNoCompletion

Spec == Init /\ [][Next]_vars

ConvSpec == ConvInit /\ [][Next]_vars

\* every Completion Service call and every Action Executor call returns: the
\* step that a call and its return make up is eventually taken
LiveSpec == Spec /\ WF_vars(Next)

\* ------------------------------------------------------------------------
\* parsePlanFromText on its own, applied to texts built from a pool of lines

MaxParseLines == 3

\* lines of a response: numbered, bulleted, padded, and lines that match no
\* form (free text, a number past "15.", a prefix without remainder, free text
\* that names the marker again)
ParseLinePool ==
    {<<"1", ".", " ", "a">>,
     <<"-", " ", "b">>,
     <<"*", " ", "c">>,
     <<" ", "1", "5", ".", " ", "d", " ">>,
     <<"n", "o", "t", "e">>,
     <<"1", "6", ".", " ", "e">>,
     <<"2", ".">>,
     <<"s", "e", "e", " ", "P", "L", "A", "N", ":", " ", "e">>}

ParsePreambles == {<<>>, <<"1", ".", " ", "p", NL>>}

RECURSIVE JoinLines(_)
JoinLines(ls) ==
    IF ls = <<>> THEN <<>> ELSE <<NL>> \o Head(ls) \o JoinLines(Tail(ls))

ParseTexts ==
    {pre \o PlanMarker \o JoinLines(ls) :
        pre \in ParsePreambles,
        ls \in UNION {[1..n -> ParseLinePool] : n \in 0..MaxParseLines}}

ParseInit ==
    /\ RunEntry
    /\ dirStat = "exists"
    /\ recording = FALSE
    /\ parseIn \in ParseTexts
    /\ parseOut = Nil
    /\ toolIn = Nil
    /\ toolResult = Nil

ApplyParse ==
    /\ parseOut = Nil
    /\ parseOut' = Some(parsePlanFromText(parseIn, now))
    /\ UNCHANGED <<agentState, dirStat, pc, planI, runI, execI, now, runErr, summary,
                   planResp, planLog, execLog, execLLMErrs, execCalls, toolExecuted,
                   recording, messages, lastRequest, parseIn, toolIn, toolResult>>

ParseNext == ApplyParse

ParseSpec == ParseInit /\ [][ParseNext]_vars

\* ------------------------------------------------------------------------
\* The handling of one tool invocation on its own, with outputs and error
\* texts whose lengths lie around the budgets of the two loops

MaxSlack == 8

OutputLens ==
    (0..MaxSlack)
       \cup {PlannerOutputBudget + d : d \in (0 - MaxSlack)..MaxSlack}
       \cup {ExecutorOutputBudget + d : d \in (0 - MaxSlack)..MaxSlack}

LongOutcomes ==
    {[fails |-> FALSE, text |-> Str("output", n)] : n \in OutputLens}
       \cup {[fails |-> TRUE, text |-> Str("failure", n)] : n \in OutputLens}

ToolInit ==
    /\ RunEntry
    /\ dirStat = "exists"
    /\ recording = FALSE
    /\ parseIn = <<>>
    /\ parseOut = Nil
    /\ toolIn \in {Some([call |-> ToolCallPool[c], outcome |-> o]) :
                      c \in 1..2, o \in LongOutcomes}
    /\ toolResult = Nil

\* the body of the loop over toolCalls in GeneratePlan
PlannerHandlesTool ==
    /\ toolIn # Nil
    /\ toolResult = Nil
    /\ toolResult' =
          Some([agent   |-> "planner",
                results |-> PlannerToolResults(<<toolIn[1].call>>,
                                               <<toolIn[1].outcome>>)])
    /\ UNCHANGED <<agentState, dirStat, pc, planI, runI, execI, now, runErr, summary,
                   planResp, planLog, execLog, execLLMErrs, execCalls, toolExecuted,
                   recording, messages, lastRequest, parseIn, parseOut, toolIn>>

\* the body of the loop over toolCalls in ExecuteTask
ExecutorHandlesTool ==
    /\ toolIn # Nil
    /\ toolResult = Nil
    /\ toolResult' =
          Some([agent   |-> "executor",
                results |-> ExecutorToolResults(<<toolIn[1].call>>,
                                                <<toolIn[1].outcome>>)])
    /\ UNCHANGED <<agentState, dirStat, pc, planI, runI, execI, now, runErr, summary,
                   planResp, planLog, execLog, execLLMErrs, execCalls, toolExecuted,
                   recording, messages, lastRequest, parseIn, parseOut, toolIn>>

ToolNext == PlannerHandlesTool \/ ExecutorHandlesTool

ToolSpec == ToolInit /\ [][ToolNext]_vars

\* ------------------------------------------------------------------------
\* Properties

Terminal == {"completed", "failed"}

\* the steps a task's status may take
StatusStep(a, b) ==
    \/ a = b
    \/ a = "pending" /\ b = "in_progress"
    \/ a = "in_progress" /\ b \in Terminal

\* C1: over a run of Orchestrator.Run every task's status walks along
\* pending -> in_progress -> (completed | failed): a plan is installed with all
\* of its tasks pending, and every step leaves each task's status alone or moves
\* it one stage forward; no task returns to pending, skips in_progress, or
\* changes between completed and failed.
C1_StatusWalk ==
    [][ /\ agentState.Plan = Nil =>
              \A k \in 1..Len(Tasks') : Tasks'[k].Status = "pending"
        /\ agentState.Plan # Nil =>
              /\ Len(Tasks') = Len(Tasks)
              /\ \A k \in 1..Len(Tasks) :
                    StatusStep(Tasks[k].Status, Tasks'[k].Status) ]_vars

C1_Witness ==
    /\ pc = "returned"
    /\ Len(Tasks) = 3
    /\ Tasks[1].Status = "completed"
    /\ Tasks[2].Status = "failed"
    /\ Tasks[3].Status = "completed"

\* C2: whenever ExecuteTask has returned for a task, that task is completed or
\* failed; it returned an error exactly when the task is failed, and the task is
\* failed exactly when a Completion Service call of its loop returned an error.
C2_ReturnMeansTerminal ==
    \A j \in 1..Len(execLog) :
        execLog[j].returned =>
            LET k == FindTask(Tasks, execLog[j].ID)
            IN  /\ k # 0
                /\ Tasks[k].Status \in Terminal
                /\ (execLog[j].err # "") <=> (Tasks[k].Status = "failed")
                /\ (Tasks[k].Status = "failed") <=> (execLLMErrs[j] > 0)

C2_Witness ==
    /\ Len(execLog) = 2
    /\ execLog[1].returned /\ execLog[1].err # ""
    /\ execLog[2].returned /\ execLog[2].err = ""

\* C3: ExecuteTask is invoked on the tasks of the plan in plan order, each at
\* most once; a task is started only when every task before it has returned in
\* a terminal state; and when Run has returned after a successful planning,
\* every task has been executed exactly once, whatever the earlier tasks'
\* outcomes were.
C3_PlanOrderExecution ==
    /\ Len(execLog) <= Len(Tasks)
    /\ \A j \in 1..Len(execLog) : execLog[j].ID = Tasks[j].ID
    /\ \A j \in 1..Len(execLog) - 1 :
          execLog[j].returned /\ Tasks[j].Status \in Terminal
    /\ \A k \in 1..Len(Tasks) : k > Len(execLog) => Tasks[k].Status = "pending"
    /\ (pc = "returned" /\ agentState.Plan # Nil) =>
          /\ Len(execLog) = Len(Tasks)
          /\ \A j \in 1..Len(execLog) : execLog[j].returned

C3_Witness ==
    /\ pc = "returned"
    /\ Len(Tasks) = 3
    /\ Len(execLog) = 3
    /\ Tasks[1].Status = "failed"
    /\ Tasks[2].Status = "failed"
    /\ execLog[3].returned

\* the step in which a Completion Service call of the running task's loop fails
LLMErrorInTask ==
    /\ pc = "in_task"
    /\ Len(execLLMErrs') = Len(execLLMErrs)
    /\ execLLMErrs'[Len(execLLMErrs)] = execLLMErrs[Len(execLLMErrs)] + 1

\* C4: when a Completion Service call fails in round k (1..15) of a task's
\* loop, the task ends failed with the error text recorded, the error list grows
\* by exactly that one entry, the completed list is unchanged, ExecuteTask
\* returns the error, and Run goes on to the next task of the plan (or, after
\* the last task, to its summary).  No Completion Service call is ever made
\* for a task that is not in progress, so none follows the failure.
C4_LLMErrorFailsTaskOnly ==
    [][ /\ LLMErrorInTask =>
              LET k == runI + 1
              IN  /\ Tasks'[k].Status = "failed"
                  /\ Tasks'[k].Error \in ErrTexts
                  /\ execLog'[Len(execLog)].err = "LLM error: " \o Tasks'[k].Error
                  /\ agentState'.Errors = Append(agentState.Errors, Tasks'[k].Error)
                  /\ agentState'.CompletedTasks = agentState.CompletedTasks
                  /\ execCalls' = execI + 1
                  /\ runI' = runI + 1
                  /\ IF k < Len(Tasks)
                     THEN pc' = "executing" /\ Tasks'[k + 1].Status = "pending"
                     ELSE pc' = "returned" /\ runErr' = "" /\ summary' # Nil
        /\ execCalls' = execCalls + 1 =>
              /\ pc = "in_task"
              /\ Tasks[runI + 1].Status = "in_progress" ]_vars

C4_Witness ==
    /\ pc = "executing"
    /\ execCalls = maxIterations
    /\ Len(execLog) = 1
    /\ execLog[1].err # ""
    /\ Tasks[1].Status = "failed"
    /\ Len(agentState.Errors) = 1

\* C5: a task whose loop goes through all 15 rounds, none failing and none
\* taken as completion, ends completed with the output "Task completed (max
\* iterations reached)" and is appended to the completed list; the error list
\* is unchanged and ExecuteTask returns success.
C5_ExhaustionCompletes ==
    [][ (execI = maxIterations - 1 /\ (ExecutorToolRound \/ ExecutorNoCompletion)) =>
            LET k == runI + 1
            IN  /\ Tasks'[k].Status = "completed"
                /\ Tasks'[k].Output = FallbackOutput
                /\ agentState'.CompletedTasks =
                      Append(agentState.CompletedTasks, Tasks'[k])
                /\ agentState'.Errors = agentState.Errors
                /\ execCalls' = maxIterations
                /\ execLog'[Len(execLog)].returned
                /\ execLog'[Len(execLog)].err = "" ]_vars

C5_Witness ==
    /\ Len(execLog) = 1
    /\ execLog[1].returned
    /\ execCalls = maxIterations
    /\ Tasks[1].Status = "completed"
    /\ Tasks[1].Output = FallbackOutput

\* C6: a response received in the first round of the Executor loop never
\* completes the task, whichever completion phrase it contains.
C6_FirstRoundNeverCompletes ==
    [][ (pc = "in_task" /\ execI = 0) => Tasks'[runI + 1].Status # "completed" ]_vars

\* C7: Run returns failure exactly when the working directory does not exist,
\* or GeneratePlan failed, or it left no non-empty plan; in every other case Run
\* returns success with the summary produced, whatever the tasks' outcomes.
C7_RunFailsOnlyBeforeExecution ==
    pc = "returned" =>
        /\ (runErr # "") <=>
              \/ dirStat = "not_exist"
              \/ planLog.err # ""
              \/ Len(Tasks) = 0
        /\ runErr = "" => summary # Nil
        /\ runErr # "" => summary = Nil /\ execLog = <<>>

C7_Witness ==
    /\ pc = "returned"
    /\ runErr = ""
    /\ summary # Nil
    /\ \E k \in 1..Len(Tasks) : Tasks[k].Status = "failed"
    /\ \E k \in 1..Len(Tasks) : Tasks[k].Status = "completed"

\* the number of ExecuteTask invocations that met a Completion Service error
FailedInvocations == Cardinality({j \in 1..Len(execLLMErrs) : execLLMErrs[j] > 0})

\* C8: for a plan of N tasks of which k met a Completion Service error, the
\* summary is computed from a state with N-k tasks completed, k failed, none
\* pending, none in progress and an error list of length k; the three reported
\* counts sum to N.
C8_SummaryCounts ==
    summary # Nil =>
        LET r == summary[1]
            N == Len(Tasks)
            k == FailedInvocations
        IN  /\ r.total = N
            /\ r.completed = N - k
            /\ r.failed = k
            /\ r.pending = 0
            /\ Len(r.errors) = k
            /\ r.completed + r.failed + r.pending = N
            /\ \A j \in 1..N : Tasks[j].Status # "in_progress"

C8_Witness ==
    /\ summary # Nil
    /\ Len(Tasks) = 3
    /\ Tasks[1].Status = "completed"
    /\ Tasks[2].Status = "failed"
    /\ Tasks[3].Status = "completed"
    /\ summary[1].completed = 2
    /\ summary[1].failed = 1
    /\ Len(summary[1].errors) = 1

\* C9: when the working directory does not exist, no Completion Service call
\* is made, neither GeneratePlan nor ExecuteTask nor the tool executor is
\* invoked, the plan stays absent, and Run returns the directory error.
C9_NoDirectoryNoCalls ==
    dirStat = "not_exist" =>
        /\ planLog.invoked = 0
        /\ planLog.calls = 0
        /\ planLog.finalCalls = 0
        /\ planResp = Nil
        /\ execLog = <<>>
        /\ execCalls = 0
        /\ ~toolExecuted
        /\ agentState.Plan = Nil
        /\ pc \in {"start", "returned"}
        /\ pc = "returned" => runErr = "working directory does not exist"

C9_Witness ==
    /\ dirStat = "not_exist"
    /\ pc = "returned"
    /\ runErr = "working directory does not exist"

\* the final request was answered without error by a text that yields no plan
FinalExtractionFailed ==
    /\ planLog.finalCalls = 1
    /\ planResp # Nil
    /\ planResp[1].err = ""
    /\ parsePlanFromText(planResp[1].text, now) = Nil

\* C10: when the 5 exploration rounds installed no plan and the forced final
\* response fails extraction too, GeneratePlan fails, Run fails with a planning
\* failure, the plan stays absent, no task exists and ExecuteTask is never
\* invoked.
C10_PlanningExhausted ==
    FinalExtractionFailed =>
        /\ planLog.calls = PlannerRounds
        /\ planLog.returned
        /\ planLog.err = "failed to generate a valid plan"
        /\ pc = "returned"
        /\ runErr = "planning failed: failed to generate a valid plan"
        /\ agentState.Plan = Nil
        /\ Tasks = <<>>
        /\ agentState.CompletedTasks = <<>>
        /\ execLog = <<>>
        /\ summary = Nil

C10_Witness ==
    /\ FinalExtractionFailed
    /\ planResp[1].text = TextMarkerOnly
    /\ pc = "returned"

\* ------------------------------------------------------------------------
\* Properties of planning, of the frame of a task's execution and of the
\* bookkeeping of Run State

\* the ids and descriptions of a plan's tasks, in order
Extracted(plan) ==
    IF plan = Nil
    THEN <<>>
    ELSE [k \in 1..Len(plan[1].Tasks) |->
             <<plan[1].Tasks[k].ID, plan[1].Tasks[k].Description>>]

\* C11: GeneratePlan never partially installs a plan: the plan is absent in
\* every state before GeneratePlan returns and whenever it returned an error;
\* when it returned success the plan is present and holds exactly the tasks
\* extracted from the response that ended the planning (all of them, and as
\* extracted until the first task starts).
C11_NoPartialInstall ==
    /\ ~planLog.returned => agentState.Plan = Nil
    /\ pc \in {"start", "planning"} => ~planLog.returned
    /\ (planLog.returned /\ planLog.err # "") => agentState.Plan = Nil
    /\ (planLog.returned /\ planLog.err = "") =>
          /\ agentState.Plan # Nil
          /\ planResp # Nil
          /\ Extracted(agentState.Plan) =
                Extracted(parsePlanFromText(planResp[1].text, now))
          /\ execLog = <<>> =>
                agentState.Plan =
                   parsePlanFromText(planResp[1].text, agentState.Plan[1].CreatedAt)

C11_Witness ==
    /\ planLog.returned
    /\ planLog.err = ""
    /\ planLog.finalCalls = 1
    /\ pc = "executing"
    /\ execLog = <<>>
    /\ Len(Tasks) = 3

\* the last Completion Service call of the Planner failed
PlannerLLMFailed == planResp # Nil /\ planResp[1].err # ""

\* C13: when a Completion Service call fails during planning, in an
\* exploration round or in the final request, GeneratePlan returns the error at
\* once: that call is the last one, no plan is installed, no task is executed,
\* and Run has returned the planning failure; nothing happens after Run has
\* returned, so no further call and no further tool execution is made.
C13_PlanningAbortsOnLLMError ==
    /\ [](PlannerLLMFailed =>
            /\ planLog.returned
            /\ planLog.err =
                  (IF planLog.finalCalls = 0
                   THEN "failed to get LLM response: "
                   ELSE "failed to get final plan: ") \o planResp[1].err
            /\ planLog.calls = IF planLog.finalCalls = 0 THEN planI + 1 ELSE PlannerRounds
            /\ planLog.finalCalls \in {0, 1}
            /\ pc = "returned"
            /\ runErr = "planning failed: " \o planLog.err
            /\ agentState.Plan = Nil
            /\ execLog = <<>>)
    /\ [][pc # "returned"]_vars

C13_Witness ==
    /\ PlannerLLMFailed
    /\ planLog.finalCalls = 0
    /\ planLog.calls = 3
    /\ toolExecuted
    /\ pc = "returned"

\* a line that plan extraction recognises: after trimming, a numbered prefix
\* "1." .. "15." or a bullet prefix "- " / "* " followed by a non-empty remainder
WellFormedLine(rawLine) ==
    LET line == TrimSpace(rawLine)
    IN  \/ \E k \in 1..Len(NumberPrefixes) :
              /\ HasPrefix(line, NumberPrefixes[k])
              /\ TrimSpace(SubSeq(line, Len(NumberPrefixes[k]) + 1, Len(line))) # <<>>
        \/ /\ HasPrefix(line, BulletDash) \/ HasPrefix(line, BulletStar)
           /\ TrimSpace(SubSeq(line, 3, Len(line))) # <<>>

\* the text after the first occurrence of the plan marker
AfterMarker(text) ==
    SubSeq(text, Index(text, PlanMarker) + Len(PlanMarker), Len(text))

\* the text has no marker, or no recognised line after its first marker
NoPlanInText(text) ==
    \/ ~Contains(text, PlanMarker)
    \/ LET lines == Split(AfterMarker(text), <<NL>>)
       IN  \A k \in 1..Len(lines) : ~WellFormedLine(lines[k])

\* C16: a plan is never empty: a response whose text has no marker, or has the
\* marker but no recognised task line, installs no plan at all, and in every
\* reachable state the plan of Run State is absent or has at least one task,
\* the ids of its tasks pairwise distinct.
C16_PlanNeverEmpty ==
    /\ agentState.Plan # Nil =>
          /\ Len(Tasks) >= 1
          /\ \A i, j \in 1..Len(Tasks) : i # j => Tasks[i].ID # Tasks[j].ID
    /\ (planResp # Nil /\ planResp[1].err = "" /\ planResp[1].toolCalls = <<>>
          /\ NoPlanInText(planResp[1].text)) =>
          /\ agentState.Plan = Nil
          /\ parsePlanFromText(planResp[1].text, now) = Nil
          /\ planLog.returned => planLog.err = "failed to generate a valid plan"

C16_Witness ==
    /\ planResp # Nil
    /\ planResp[1].text = TextMarkerOnly
    /\ planResp[1].toolCalls = <<>>
    /\ planLog.returned
    /\ agentState.Plan = Nil

IsPrefix(a, b) == Len(a) <= Len(b) /\ SubSeq(b, 1, Len(a)) = a

\* a step taken while a task is being executed touches that task only
FrameStep ==
    pc \in {"executing", "in_task"} =>
       /\ Len(Tasks') = Len(Tasks)
       /\ \A j \in 1..Len(Tasks) : j # runI + 1 => Tasks'[j] = Tasks[j]
       /\ IsPrefix(agentState.CompletedTasks, agentState'.CompletedTasks)
       /\ IsPrefix(agentState.Errors, agentState'.Errors)

\* C18: from the call of ExecuteTask on task k until its return, with success
\* or with an error, every other task of the plan is unchanged in all its
\* fields, and the completed list and the error list only grow by appending.
C18_ExecutionFrame == [][FrameStep]_vars

C18_Witness ==
    /\ Len(Tasks) = 3
    /\ Tasks[1].Status = "completed"
    /\ Tasks[2].Status = "failed"
    /\ Tasks[3].Status = "completed"
    /\ Len(agentState.CompletedTasks) = 2
    /\ Len(agentState.Errors) = 1

TimestampsMatchStatus ==
    \A k \in 1..Len(Tasks) :
        /\ (Tasks[k].CompletedAt # Nil) <=> (Tasks[k].Status \in Terminal)
        /\ (Tasks[k].StartedAt # Nil) <=> (Tasks[k].Status # "pending")

TimestampsKept ==
    \A k \in 1..Len(Tasks) :
        /\ Tasks[k].StartedAt # Nil => Tasks'[k].StartedAt = Tasks[k].StartedAt
        /\ Tasks[k].CompletedAt # Nil => Tasks'[k].CompletedAt = Tasks[k].CompletedAt

\* C19: in every reachable state and for every task, CompletedAt is set
\* exactly when the status is completed or failed and StartedAt is set exactly
\* when the status is not pending; a timestamp that is set is never assigned
\* again.
C19_Timestamps == [](TimestampsMatchStatus) /\ [][TimestampsKept]_vars

C19_Witness ==
    /\ Len(Tasks) = 3
    /\ Tasks[1].Status = "failed" /\ Tasks[1].CompletedAt # Nil
    /\ Tasks[2].Status = "in_progress" /\ Tasks[2].StartedAt # Nil
    /\ Tasks[3].Status = "pending" /\ Tasks[3].StartedAt = Nil

\* the error texts of the failed tasks, in plan order
FailedErrors(tasks) ==
    LET failed == SelectSeq(tasks, LAMBDA t : t.Status = "failed")
    IN  [k \in 1..Len(failed) |-> failed[k].Error]

\* C20: in every reachable state the error list has one entry per failed
\* task, and its i-th entry is the error text of the i-th task that failed
\* (the order of the failures, which is plan order).
C20_ErrorListMatchesFailures ==
    /\ Len(agentState.Errors) = CountStatus(Tasks, "failed")
    /\ agentState.Errors = FailedErrors(Tasks)

C20_Witness ==
    /\ Len(Tasks) = 3
    /\ Tasks[1].Status = "failed"
    /\ Tasks[2].Status = "completed"
    /\ Tasks[3].Status = "failed"
    /\ Tasks[1].Error # Tasks[3].Error
    /\ agentState.Errors = <<Tasks[1].Error, Tasks[3].Error>>

\* the ceilings on Completion Service calls: 5 exploration calls and one final
\* call for planning, maxIterations calls for the task being executed, and no
\* more tasks executed than the plan has
CallCeilings ==
    /\ planLog.calls <= PlannerRounds
    /\ planLog.finalCalls <= 1
    /\ planLog.calls + planLog.finalCalls <= 6
    /\ execCalls <= maxIterations
    /\ Len(execLog) <= Len(Tasks)
    /\ pc = "in_task" => execCalls = execI

\* C17: when every Completion Service call and every Action Executor call
\* returns, every run of Orchestrator.Run ends: it makes at most 6 Completion
\* Service calls for planning and at most 15 for each of the plan's tasks, and
\* it reaches its return, with the summary or with a failure.
C17_RunTerminates ==
    /\ [](CallCeilings)
    /\ <>(pc = "returned")
    /\ [](pc = "returned" => (summary # Nil \/ runErr # ""))

C17_Witness ==
    /\ pc = "returned"
    /\ summary # Nil
    /\ planLog.calls = PlannerRounds
    /\ planLog.finalCalls = 1
    /\ Len(execLog) = 3
    /\ execCalls = maxIterations

\* what is left of a recognised line after its prefix and the blanks around it
Remainder(rawLine) ==
    LET line == TrimSpace(rawLine)
    IN  IF HasPrefix(line, BulletDash) \/ HasPrefix(line, BulletStar)
        THEN TrimSpace(SubSeq(line, 3, Len(line)))
        ELSE LET k == CHOOSE k \in 1..Len(NumberPrefixes) : HasPrefix(line, NumberPrefixes[k])
             IN  TrimSpace(SubSeq(line, Len(NumberPrefixes[k]) + 1, Len(line)))

\* the recognised lines that follow the first marker of the text, in order
WellFormedLines(text) ==
    SelectSeq(Split(AfterMarker(text), <<NL>>), WellFormedLine)

\* the plan extracted from text has one pending task per recognised line
ExtractsAll(text, plan) ==
    LET wf == WellFormedLines(text)
    IN  /\ plan # Nil
        /\ Len(plan[1].Tasks) = Len(wf)
        /\ \A k \in 1..Len(wf) :
              /\ plan[1].Tasks[k].ID = "task-" \o ToString(k)
              /\ plan[1].Tasks[k].Description = Remainder(wf[k])
              /\ plan[1].Tasks[k].Status = "pending"

\* C15: for every text that has the plan marker followed by N recognised
\* numbered or bulleted lines (1 <= N <= 15), with lines of no form among them,
\* plan extraction yields exactly N tasks with ids task-1 .. task-N in source
\* order, each with the remainder of its line as description and status pending.
C15_ExtractsEveryWellFormedLine ==
    (parseOut # Nil /\ Contains(parseIn, PlanMarker)
       /\ Len(WellFormedLines(parseIn)) \in 1..15)
    => ExtractsAll(parseIn, parseOut[1])

\* the same for the texts in which the marker occurs once
C15_SingleMarkerTexts ==
    (parseOut # Nil /\ Len(Split(parseIn, PlanMarker)) = 2
       /\ Len(WellFormedLines(parseIn)) \in 1..15)
    => ExtractsAll(parseIn, parseOut[1])

\* ------------------------------------------------------------------------
\* Properties of the recorded conversation (ConvSpec)

Last(seq) == seq[Len(seq)]

\* the last request is one of GeneratePlan: no task has been started
PlannerRequestSent == lastRequest # Nil /\ execLog = <<>>

\* the shape of the requests GeneratePlan sends
PlannerRequestShape ==
    /\ planLog.calls <= PlannerRounds
    /\ planLog.finalCalls <= 1
    /\ planLog.calls + planLog.finalCalls <= 6
    /\ planLog.finalCalls = 1 => planLog.calls = PlannerRounds
    /\ (PlannerRequestSent /\ planLog.finalCalls = 0) =>
          /\ lastRequest[1].tools = "all"
          /\ Last(lastRequest[1].messages) #
                AnthropicMessage("user", <<TextContent(FinalInstruction)>>)
    /\ (PlannerRequestSent /\ planLog.finalCalls = 1) =>
          /\ lastRequest[1].tools = "none"
          /\ Last(lastRequest[1].messages) =
                AnthropicMessage("user", <<TextContent(FinalInstruction)>>)
          /\ lastRequest[1].messages = messages

\* the step of the final request: the five exploration rounds are over and no
\* plan is installed
FinalRequestStep ==
    planLog'.finalCalls > planLog.finalCalls =>
       /\ planLog.finalCalls = 0
       /\ planLog.calls = PlannerRounds
       /\ ~planLog.returned
       /\ agentState.Plan = Nil
       /\ Len(messages') = Len(messages) + 1
       /\ SubSeq(messages', 1, Len(messages)) = messages

\* C12: GeneratePlan makes at most 5 Completion Service calls with the tool
\* schemas, then at most one final call: the final call is made only after five
\* exploration rounds that installed no plan, its history ends with the user
\* turn appended just before it that asks for the plan marker format, and it is
\* sent without tools; at most 6 calls in all.
C12_PlannerCalls == [](PlannerRequestShape) /\ [][FinalRequestStep]_vars

C12_Witness ==
    /\ PlannerRequestSent
    /\ planLog.finalCalls = 1
    /\ planLog.calls = PlannerRounds
    /\ lastRequest[1].tools = "none"
    /\ Len(lastRequest[1].messages) = 6
    /\ agentState.Plan # Nil

\* the step is a tool round: the conversation grows by an assistant turn and
\* a user turn of tool results
ToolRoundStep ==
    /\ recording
    /\ Len(messages') = Len(messages) + 2
    /\ SubSeq(messages', 1, Len(messages)) = messages
    /\ messages'[Len(messages) + 1].Role = "assistant"
    /\ messages'[Len(messages) + 2].Role = "user"
    /\ messages'[Len(messages) + 2].Content[1].Type = "tool_result"

\* the tool invocations of an assistant turn
ToolUses(turn) == SelectSeq(turn.Content, LAMBDA b : b.Type = "tool_use")

\* what a tool result can carry for an invocation of the named tool
ResultContents(name) ==
    IF name \in ToolNames
    THEN {Str("ok", 2), Str("Error: ", 7) \o Str("failed", 6)}
    ELSE {Str("Error: ", 7) \o Str("unknown tool: ", 14) \o Str(name, NameLen(name))}

\* a tool round gives every invocation its result, failed or not, and goes on
\* to the next round without failing a task
ToolFailureContained ==
    ToolRoundStep =>
       LET uses    == ToolUses(messages'[Len(messages) + 1])
           results == messages'[Len(messages) + 2].Content
       IN  /\ Len(results) = Len(uses)
           /\ \A k \in 1..Len(uses) :
                 /\ results[k].Type = "tool_result"
                 /\ results[k].ToolUseID = uses[k].ID
                 /\ results[k].Content \in ResultContents(uses[k].Name)
           /\ toolExecuted'
           /\ agentState'.Errors = agentState.Errors
           /\ \A j \in 1..Len(Tasks) :
                 Tasks[j].Status # "failed" => Tasks'[j].Status # "failed"
           /\ pc = "planning" =>
                 /\ pc' = "planning"
                 /\ planI' = planI + 1
                 /\ ~planLog'.returned
                 /\ runErr' = ""
           /\ pc = "in_task" =>
                 /\ execI' = execI + 1
                 /\ execI + 1 < maxIterations =>
                       /\ pc' = "in_task"
                       /\ ~Last(execLog').returned
                       /\ Tasks'[runI + 1].Status = "in_progress"

\* C14: a failing Action Executor call, an unrecognised tool name included,
\* never aborts the loop of the Planner or of the Executor and never makes a
\* task failed: the failure becomes a tool result in the user turn fed back to
\* the model, the other invocations of the response are executed and get their
\* results too, and the loop goes on with its next round.
C14_ToolFailureNeverAborts == [][ToolFailureContained]_vars

C14_Witness ==
    /\ pc = "in_task"
    /\ execI = 2
    /\ Len(messages) = 5
    /\ Last(messages).Role = "user"
    /\ Len(Last(messages).Content) = 2
    /\ Last(messages).Content[1].Content = Str("Error: ", 7) \o Str("failed", 6)
    /\ Last(messages).Content[2].Content =
          Str("Error: ", 7) \o Str("unknown tool: ", 14) \o Str("format_disk", 11)
    /\ Tasks[runI + 1].Status = "in_progress"

\* ------------------------------------------------------------------------
\* Properties of the completed list, the current task and the plan

\* the tasks of the plan that are completed, in plan order
CompletedInPlan == SelectSeq(Tasks, LAMBDA t : t.Status = "completed")

\* C21: in every reachable state the completed list holds exactly one
\* snapshot for each completed task and none for any other task: no failed,
\* pending or in_progress task is in it, none is in it twice, the snapshots are
\* in completion order, and each one has status completed and the output that
\* was recorded at completion.
C21_CompletedListMatchesTasks ==
    /\ Len(agentState.CompletedTasks) = CountStatus(Tasks, "completed")
    /\ agentState.CompletedTasks = CompletedInPlan
    /\ \A i \in 1..Len(agentState.CompletedTasks) :
          /\ agentState.CompletedTasks[i].Status = "completed"
          /\ agentState.CompletedTasks[i].CompletedAt # Nil
          /\ \A j \in 1..Len(agentState.CompletedTasks) :
                i < j =>
                   /\ agentState.CompletedTasks[i].ID # agentState.CompletedTasks[j].ID
                   /\ agentState.CompletedTasks[i].CompletedAt[1]
                         < agentState.CompletedTasks[j].CompletedAt[1]

C21_Witness ==
    /\ Len(Tasks) = 3
    /\ Tasks[1].Status = "completed" /\ Tasks[1].Output = FallbackOutput
    /\ Tasks[2].Status = "failed"
    /\ Tasks[3].Status = "completed" /\ Tasks[3].Output = TextDone
    /\ Len(agentState.CompletedTasks) = 2
    /\ agentState.CompletedTasks[2].Output = TextDone

InProgress == {k \in 1..Len(Tasks) : Tasks[k].Status = "in_progress"}

CurrentTaskHolds ==
    /\ Cardinality(InProgress) <= 1
    /\ pc \in {"start", "planning"} => InProgress = {}
    /\ \A k \in InProgress :
          /\ agentState.CurrentTask = Some(k)
          /\ k = runI + 1
          /\ pc = "in_task"

\* a task becomes in_progress on the entry of ExecuteTask only, from pending,
\* together with started_at and the current-task pointer
EntersInProgress ==
    \A k \in 1..Len(Tasks) :
       (Tasks[k].Status # "in_progress" /\ Tasks'[k].Status = "in_progress") =>
          /\ pc = "executing" /\ pc' = "in_task"
          /\ Tasks[k].Status = "pending"
          /\ Tasks[k].StartedAt = Nil /\ Tasks'[k].StartedAt # Nil
          /\ agentState'.CurrentTask = Some(k)

\* C22: in every reachable state at most one task is in_progress, none is
\* while the Planner runs, and whenever a task is in_progress the current-task
\* pointer of Run State refers to it: it is set on the entry of ExecuteTask
\* together with the step pending -> in_progress and with started_at.
C22_SingleCurrentTask == [](CurrentTaskHolds) /\ [][EntersInProgress]_vars

C22_Witness ==
    /\ Len(Tasks) = 3
    /\ Tasks[1].Status = "completed"
    /\ Tasks[2].Status = "in_progress"
    /\ Tasks[3].Status = "pending"
    /\ agentState.CurrentTask = Some(2)
    /\ execI = 3

\* a step keeps an installed plan: its tasks, their order, ids and
\* descriptions, and the plan is installed by GeneratePlan only
PlanKept ==
    /\ agentState.Plan # Nil =>
          /\ agentState'.Plan # Nil
          /\ Extracted(agentState'.Plan) = Extracted(agentState.Plan)
          /\ agentState'.Plan[1].Summary = agentState.Plan[1].Summary
          /\ agentState'.Plan[1].CreatedAt = agentState.Plan[1].CreatedAt
    /\ (agentState.Plan = Nil /\ agentState'.Plan # Nil) =>
          /\ pc = "planning"
          /\ ~planLog.returned /\ planLog'.returned
          /\ planLog.invoked = 1

\* C23: the plan is produced once per run and not changed afterwards: it is
\* installed at most once, and from then on the number of its tasks, their
\* order, their ids and their descriptions stay the same.
C23_PlanImmutable == [][PlanKept]_vars

C23_Witness ==
    /\ pc = "returned"
    /\ summary # Nil
    /\ Len(Tasks) = 3
    /\ Extracted(agentState.Plan) = Extracted(parsePlanFromText(TextMixedPlan, now))
    /\ Tasks[1].Status = "completed"
    /\ Tasks[2].Status = "failed"
    /\ Tasks[3].Status = "completed"

\* ------------------------------------------------------------------------
\* Properties of the rounds of the two loops (ConvSpec)

\* the text of a turn: its text blocks, concatenated
RECURSIVE BlocksText(_)
BlocksText(blocks) ==
    IF blocks = <<>>
    THEN <<>>
    ELSE (IF Head(blocks).Type = "text" THEN Head(blocks).Text ELSE <<>>)
            \o BlocksText(Tail(blocks))

\* a response of the Planner with tool invocations leaves no plan behind and
\* the exploration goes on
PlannerToolResponse ==
    (planResp # Nil /\ planResp[1].err = "" /\ planResp[1].toolCalls # <<>>) =>
       /\ agentState.Plan = Nil
       /\ pc = "planning"
       /\ ~planLog.returned
       /\ Last(messages).Role = "user"
       /\ Len(Last(messages).Content) = Len(planResp[1].toolCalls)

\* the step appends the assistant turn of a response that has tool invocations
AppendsToolResponse ==
    /\ recording
    /\ Len(messages') > Len(messages)
    /\ SubSeq(messages', 1, Len(messages)) = messages
    /\ messages'[Len(messages) + 1].Role = "assistant"
    /\ ToolUses(messages'[Len(messages) + 1]) # <<>>

\* no round of the Executor whose response has tool invocations completes the
\* task with the text of the response
ExecutorToolResponse ==
    (pc = "in_task" /\ AppendsToolResponse) =>
       /\ Len(messages') = Len(messages) + 2
       /\ Last(messages').Role = "user"
       /\ \/ /\ Tasks'[runI + 1].Status = "in_progress"
             /\ pc' = "in_task"
             /\ execI' = execI + 1
          \/ /\ execI + 1 = maxIterations
             /\ Tasks'[runI + 1].Output = FallbackOutput

\* C26: in both loops a response that has tool invocations is handled as a
\* tool round: the Planner installs no plan from it although its text has the
\* plan marker and task lines, and the Executor does not mark the task completed
\* in that round although its text has a completion phrase.
C26_ToolResponseIsToolRound ==
    [](PlannerToolResponse) /\ [][ExecutorToolResponse]_vars

C26_Witness ==
    /\ pc = "in_task"
    /\ execI = 2
    /\ Len(messages) = 5
    /\ ToolUses(messages[4]) # <<>>
    /\ IsCompletion(BlocksText(messages[4].Content), 1)
    /\ Tasks[runI + 1].Status = "in_progress"
    /\ toolExecuted

\* ------------------------------------------------------------------------
\* Properties of the conversation of a task (ConvSpec)

TaskHeader == "Current task to implement:\n"

\* the pieces of the seed text that come before the task header
DigestOf(text) ==
    LET at == CHOOSE i \in 1..Len(text) :
                 /\ text[i] = TaskHeader
                 /\ \A j \in 1..(i - 1) : text[j] # TaskHeader
    IN  SubSeq(text, 1, at - 1)

RECURSIVE DigestLines(_)
DigestLines(descriptions) ==
    IF descriptions = <<>>
    THEN <<>>
    ELSE <<"- ">> \o Head(descriptions) \o <<"\n">>
            \o DigestLines(Tail(descriptions))

\* the descriptions of the tasks before task k that ended completed
CompletedBefore(k) ==
    LET done == SelectSeq(SubSeq(Tasks, 1, k - 1), LAMBDA t : t.Status = "completed")
    IN  [i \in 1..Len(done) |-> done[i].Description]

\* C24: the conversation that seeds the execution of task k has a digest that
\* lists exactly the descriptions of the tasks in the completed list at that
\* moment, which are the tasks before k in plan order that ended completed, in
\* that order; failed tasks are not listed, and without a completed task there
\* is no digest.
C24_SeedDigest ==
    pc = "in_task" =>
       LET digest == DigestOf(messages[1].Content[1].Text)
           descs  == CompletedBefore(runI + 1)
       IN  /\ messages[1].Role = "user"
           /\ descs = [i \in 1..Len(agentState.CompletedTasks) |->
                          agentState.CompletedTasks[i].Description]
           /\ descs = <<>> => digest = <<>>
           /\ descs # <<>> =>
                 digest = <<"Previously completed tasks:\n">>
                             \o DigestLines(descs) \o <<"\n">>

C24_Witness ==
    /\ pc = "in_task"
    /\ runI = 2
    /\ Tasks[1].Status = "completed"
    /\ Tasks[2].Status = "failed"
    /\ DigestOf(messages[1].Content[1].Text) =
          <<"Previously completed tasks:\n", "- ", "a", "\n", "\n">>

\* the turns GeneratePlan puts into its conversation
PlannerTurn(turn) ==
    \/ turn = buildContextMessages(agentState)[1]
    \/ turn = AnthropicMessage("user", <<TextContent(FinalInstruction)>>)
    \/ turn.Role = "assistant" /\ Contains(BlocksText(turn.Content), PlanMarker)

\* the conversation of a task starts with its own seed turn and holds only
\* turns of its own rounds
FreshConversation ==
    pc = "in_task" =>
       /\ Len(messages) >= 1
       /\ Len(messages) <= 1 + 2 * execI
       /\ execI = 0 => Len(messages) = 1
       /\ messages[1].Role = "user"
       /\ messages[1].Content[1].Type = "text"
       /\ \E i \in 1..Len(messages[1].Content[1].Text) :
             /\ messages[1].Content[1].Text[i] = TaskHeader
             /\ SubSeq(messages[1].Content[1].Text, i + 1,
                       i + Len(Tasks[runI + 1].Description))
                   = Tasks[runI + 1].Description
       /\ \A i \in 1..Len(messages) : ~PlannerTurn(messages[i])

\* every request of a task's loop sends the conversation of that task
TaskRequestStep ==
    pc = "in_task" =>
       /\ lastRequest' = Some([messages |-> messages, tools |-> "all"])
       /\ execI = 0 =>
             /\ Len(lastRequest'[1].messages) = 1
             /\ lastRequest'[1].messages[1].Role = "user"

\* C25: each invocation of the Executor builds a fresh conversation: the
\* history of the first Completion Service call of every task is exactly one
\* user turn, and no turn appended during planning or during the loop of
\* another task is in the history of a task's requests.
C25_FreshConversationPerTask == [](FreshConversation) /\ [][TaskRequestStep]_vars

C25_Witness ==
    /\ pc = "in_task"
    /\ runI = 1
    /\ execI = 1
    /\ planLog.calls >= 2
    /\ Tasks[1].Status = "completed"
    /\ Len(lastRequest[1].messages) = 1
    /\ lastRequest[1].messages[1] = messages[1]

\* a response with tool invocations c1..cn extends the conversation by its
\* assistant turn and one user turn with the results r1..rn
ToolRoundExtends ==
    /\ AppendsToolResponse =>
          LET uses    == ToolUses(messages'[Len(messages) + 1])
              results == messages'[Len(messages) + 2].Content
          IN  /\ Len(messages') = Len(messages) + 2
              /\ messages'[Len(messages) + 2].Role = "user"
              /\ Len(results) = Len(uses)
              /\ \A k \in 1..Len(uses) :
                    /\ results[k].Type = "tool_result"
                    /\ results[k].ToolUseID = uses[k].ID
                    /\ results[k].Content \in ResultContents(uses[k].Name)
              /\ \A j, k \in 1..Len(results) :
                    j # k => results[j].ToolUseID # results[k].ToolUseID
    /\ (pc = "planning" /\ planLog'.calls > planLog.calls
          /\ planResp'[1].toolCalls # <<>>) =>
          /\ AppendsToolResponse
          /\ messages'[Len(messages) + 1].Content =
                ResponseContent(planResp'[1].text, planResp'[1].toolCalls)

\* C27: in both loops, for every response with tool invocations c1..cn the
\* history is extended by the assistant turn, directly followed by exactly one
\* user turn with exactly n tool results r1..rn in the same order, ri carrying
\* the identifier of ci: every invocation gets one result, none is left out.
C27_ToolRoundExtendsHistory == [][ToolRoundExtends]_vars

C27_Witness ==
    /\ pc = "planning"
    /\ planI = 2
    /\ Len(messages) = 5
    /\ Len(ToolUses(messages[4])) = 2
    /\ Len(messages[5].Content) = 2
    /\ messages[5].Content[1].ToolUseID = "tu_1"
    /\ messages[5].Content[2].ToolUseID = "tu_2"

\* the tool results of a conversation
ToolResultsOf(msgs) ==
    {<<i, k>> \in (1..Len(msgs)) \X (1..MaxToolCalls + 1) :
        /\ k <= Len(msgs[i].Content)
        /\ msgs[i].Content[k].Type = "tool_result"}

\* the result of an invocation whose Execute call returned an error
ErrorContent(content) == IsPrefix(Str("Error: ", 7), content)

\* C28: for every tool invocation handled by the loop of the Planner or of
\* the Executor, the error flag of its tool result is set exactly when the
\* Action Executor call returned an error.
C28_ErrorFlagMatches ==
    \A p \in ToolResultsOf(messages) :
       messages[p[1]].Content[p[2]].IsError
          <=> ErrorContent(messages[p[1]].Content[p[2]].Content)

\* the same for the conversations of the Executor
C28_ExecutorErrorFlags ==
    execLog # <<>> =>
       \A p \in ToolResultsOf(messages) :
          messages[p[1]].Content[p[2]].IsError
             <=> ErrorContent(messages[p[1]].Content[p[2]].Content)

IsNudge(turn) == turn = AnthropicMessage("user", <<TextContent(NudgeText)>>)

Nudges(msgs) == {i \in 1..Len(msgs) : IsNudge(msgs[i])}

\* a nudge is the answer to the first response of the task, which has no tool
\* invocation, has text and is no completion
NudgePlace ==
    execLog # <<>> =>
       /\ Nudges(messages) \subseteq {3}
       /\ 3 \in Nudges(messages) =>
             /\ messages[2].Role = "assistant"
             /\ ToolUses(messages[2]) = <<>>
             /\ BlocksText(messages[2].Content) # <<>>
             /\ ~IsCompletion(BlocksText(messages[2].Content), 0)

NudgeStep ==
    (recording /\ Cardinality(Nudges(messages')) > Cardinality(Nudges(messages))
       /\ pc = "in_task") =>
       /\ execI = 0
       /\ execI' = 1
       /\ Len(messages) = 1
       /\ Tasks'[runI + 1].Status = "in_progress"

\* C29: the nudge turn is appended to the conversation of a task in the first
\* round only, and only when the response of that round has no tool invocation,
\* has text and was not taken as completion; so at most one nudge is appended
\* per task, and none in the rounds 2 to 15.
C29_NudgeOnlyFirstRound == [](NudgePlace) /\ [][NudgeStep]_vars

C29_Witness ==
    /\ pc = "returned"
    /\ Len(messages) = 17
    /\ Nudges(messages) = {3}
    /\ Tasks[Len(Tasks)].Output = FallbackOutput

\* ------------------------------------------------------------------------
\* Properties of plan extraction (ParseSpec)

\* the (id, description) pairs the recognised lines after the first marker
\* stand for
ExpectedTasks(text) ==
    LET wf == WellFormedLines(text)
    IN  [k \in 1..Len(wf) |-> <<"task-" \o ToString(k), Remainder(wf[k])>>]

\* C30: plan extraction parses all of the text after the first occurrence of
\* the plan marker: every recognised line after it, up to the end of the text,
\* yields a task, the lines after a further occurrence of the marker included;
\* the lines before the first marker yield none.
C30_ParsesAllAfterFirstMarker ==
    parseOut # Nil => Extracted(parseOut[1]) = ExpectedTasks(parseIn)

\* the lines before the first marker yield no task, and up to a second marker
\* every recognised line yields one
C30_UpToSecondMarker ==
    parseOut # Nil =>
       LET between == Split(parseIn, PlanMarker)[2]
           wf      == SelectSeq(Split(between, <<NL>>), WellFormedLine)
       IN  Extracted(parseOut[1]) =
              [k \in 1..Len(wf) |-> <<"task-" \o ToString(k), Remainder(wf[k])>>]

\* ------------------------------------------------------------------------
\* Properties of the Planner's working history (ConvSpec)

\* an exploration round of GeneratePlan whose response has no tool invocation
\* and yields no plan
NoPlanRound ==
    /\ pc = "planning"
    /\ planLog'.calls > planLog.calls
    /\ planResp'[1].err = ""
    /\ planResp'[1].toolCalls = <<>>
    /\ ~planLog'.returned

\* what GeneratePlan does to its history in one step
PlannerHistoryStep ==
    (recording /\ pc = "planning") =>
       /\ planLog'.calls > planLog.calls => lastRequest' = Request(messages, "all")
       /\ NoPlanRound =>
             /\ messages' = messages
             /\ pc' = "planning"
             /\ planI' = planI + 1
       /\ (planLog'.calls > planLog.calls /\ planResp # Nil
              /\ planResp[1].toolCalls = <<>>) =>
             lastRequest'[1].messages = lastRequest[1].messages
       /\ messages' # messages =>
             \/ /\ planLog'.calls > planLog.calls
                /\ planResp'[1].toolCalls # <<>>
                /\ ToolRoundStep
             \/ /\ planLog'.finalCalls > planLog.finalCalls
                /\ messages' =
                      Append(messages,
                             AnthropicMessage("user", <<TextContent(FinalInstruction)>>))

\* C33: in a Planner exploration round whose response has no tool invocation
\* and yields no plan, the Planner's history is left unchanged (the response
\* is not appended), so the next exploration round sends exactly the history
\* the round before sent; the Planner's history changes only in rounds with
\* tool invocations and when the final-request instruction is appended.
C33_NoPlanRoundKeepsHistory == [][PlannerHistoryStep]_vars

C33_Witness ==
    /\ pc = "planning"
    /\ planI = 3
    /\ planLog.calls = 3
    /\ planResp # Nil
    /\ planResp[1].err = ""
    /\ planResp[1].toolCalls = <<>>
    /\ Len(messages) = 3
    /\ lastRequest # Nil
    /\ lastRequest[1].messages = messages

\* ------------------------------------------------------------------------
\* Properties of the histories sent to the Completion Service (ConvSpec)

\* a history that starts and ends with a user turn and alternates the roles
Alternates(msgs) ==
    /\ Len(msgs) >= 1
    /\ msgs[1].Role = "user"
    /\ \A k \in 1..(Len(msgs) - 1) : msgs[k].Role # msgs[k + 1].Role
    /\ Last(msgs).Role = "user"

\* C32: every history sent to the Completion Service, by the Planner in its
\* exploration rounds and its final request and by the Executor in all its
\* rounds, starts with a user turn, strictly alternates user and assistant
\* turns and ends with a user turn.
C32_HistoriesAlternate ==
    lastRequest # Nil => Alternates(lastRequest[1].messages)

\* the same for the exploration requests of the Planner alone
C32_ExplorationHistoriesAlternate ==
    (PlannerRequestSent /\ planLog.finalCalls = 0) =>
       Alternates(lastRequest[1].messages)

\* the final request of the Planner that follows a tool round
C32_FinalRequestRepeatsUser ==
    ~(/\ PlannerRequestSent
      /\ planLog.finalCalls = 1
      /\ Len(lastRequest[1].messages) >= 2
      /\ lastRequest[1].messages[Len(lastRequest[1].messages) - 1].Role = "user")

\* ------------------------------------------------------------------------
\* Properties of the tool outputs placed in tool results (ToolSpec)

\* the i-th byte of a string: the text it comes from and its offset there
RECURSIVE ByteAt(_, _)
ByteAt(s, i) ==
    IF i <= Head(s).len
    THEN <<Head(s).text, Head(s).from + i - 1>>
    ELSE ByteAt(Tail(s), i - Head(s).len)

\* content is output capped to budget with marker
Capped(output, content, budget, marker) ==
    /\ StrLen(content) <= budget + StrLen(marker)
    /\ StrLen(output) <= budget => content = output
    /\ StrLen(output) > budget =>
          /\ StrLen(content) = budget + StrLen(marker)
          /\ \A i \in 1..budget : ByteAt(content, i) = ByteAt(output, i)
          /\ \A j \in 1..StrLen(marker) :
                ByteAt(content, budget + j) = ByteAt(marker, j)

\* C31: every tool output placed in a tool result is capped: in the Planner
\* its length is at most 5000 plus the length of the marker
\* "\n... (truncated)", in the Executor at most 10000 plus the length of
\* "\n... (output truncated)"; an output no longer than the budget is passed
\* unchanged, and a longer one is replaced by its first budget bytes followed
\* by the marker. Lengths are counted as len counts them.
C31_OutputsCapped ==
    toolResult # Nil =>
       LET output  == ToolOutput(toolIn[1].call.Name, toolIn[1].outcome)
           results == toolResult[1].results
       IN  /\ Len(results) = 1
           /\ results[1].Type = "tool_result"
           /\ toolResult[1].agent = "planner" =>
                 Capped(output, results[1].Content, 5000,
                        Str("\n... (truncated)", 16))
           /\ toolResult[1].agent = "executor" =>
                 Capped(output, results[1].Content, 10000,
                        Str("\n... (output truncated)", 23))

\* the Executor cut the formatted error of a failed invocation
C31_Witness ==
    /\ toolResult # Nil
    /\ toolResult[1].agent = "executor"
    /\ toolIn[1].outcome.fails
    /\ toolIn[1].call.Name \in ToolNames
    /\ StrLen(toolIn[1].outcome.text) = 10000
    /\ StrLen(toolResult[1].results[1].Content) = 10023
    /\ toolResult[1].results[1].IsError

====
